---- MODULE Spec2Model ----
(***************************************************************************)
(* A model of the WTTP resource fetcher (wttpFetch.js): the request state  *)
(* machine of fetchWTTPResource (HEAD, redirect loop, index fallback,      *)
(* direct GET probe, GET with retry, chunk-count repair, first-chunk       *)
(* paging) and the chunk reassembly of readDataPointsContent.              *)
(*                                                                         *)
(* Strings of the program (paths, redirect locations) are sequences of     *)
(* one-character strings, so that startsWith / endsWith / includes /       *)
(* split / substring are computed as the code computes them.  Byte         *)
(* buffers are sequences of numbers 0..255.                                *)
(***************************************************************************)
EXTENDS Integers, Sequences, FiniteSets, TLC

(***************************************************************************)
(* String helpers (JavaScript String.prototype semantics)                  *)
(***************************************************************************)
\* s.startsWith(p)
StartsWith(s, p) ==
    /\ Len(p) <= Len(s)
    /\ SubSeq(s, 1, Len(p)) = p

\* s.endsWith(p)
EndsWith(s, p) ==
    /\ Len(p) <= Len(s)
    /\ SubSeq(s, Len(s) - Len(p) + 1, Len(s)) = p

\* s.includes(c) for a one-character c
Includes(s, c) == \E k \in 1..Len(s) : s[k] = c

\* s.substring(n): the text after the first n characters
Substring(s, n) == SubSeq(s, n + 1, Len(s))

\* s.lastIndexOf(c) + 1 for a one-character c (0 when c does not occur)
LastIndexOfPlus1(s, c) ==
    IF Includes(s, c)
    THEN CHOOSE k \in 1..Len(s) :
            /\ s[k] = c
            /\ \A j \in (k + 1)..Len(s) : s[j] # c
    ELSE 0

\* s.split(c) for a one-character separator c: the sequence of segments
RECURSIVE Split(_, _)
Split(s, c) ==
    IF ~Includes(s, c)
    THEN <<s>>
    ELSE LET k == CHOOSE k \in 1..Len(s) :
                     /\ s[k] = c
                     /\ \A j \in 1..(k - 1) : s[j] # c
         IN  <<SubSeq(s, 1, k - 1)>> \o Split(SubSeq(s, k + 1, Len(s)), c)

\* segs.join("/")
RECURSIVE Join(_)
Join(segs) ==
    IF Len(segs) = 0 THEN <<>>
    ELSE IF Len(segs) = 1 THEN segs[1]
    ELSE segs[1] \o <<"/">> \o Join(Tail(segs))

(***************************************************************************)
(* Path Normalizer                                                         *)
(***************************************************************************)
\* normalizePath prefixing "/" to absolute paths too
normalizePathAlwaysPrefix(path) == <<"/">> \o path

\* normalizePath(path)
normalizePath(path) ==
    IF path = <<>> THEN <<"/">>
    ELSE IF StartsWith(path, <<"/">>) THEN path
    ELSE IF StartsWith(path, <<".", "/">>) THEN <<"/">> \o Substring(path, 2)
    ELSE IF StartsWith(path, <<".", ".", "/">>) THEN <<"/">> \o Substring(path, 3)
    ELSE <<"/">> \o path

\* PosixStack pushing every segment, "", "." and ".." included
PosixStackKeepsAll(segs, stack) == stack \o segs

\* the segment stack of normalizePosixPath after the segments segs
RECURSIVE PosixStack(_, _)
PosixStack(segs, stack) ==
    IF Len(segs) = 0 THEN stack
    ELSE LET seg == Head(segs) IN
         IF seg = <<>> \/ seg = <<".">>
         THEN PosixStack(Tail(segs), stack)
         ELSE IF seg = <<".", ".">>
         THEN PosixStack(Tail(segs),
                         IF Len(stack) > 0
                         THEN SubSeq(stack, 1, Len(stack) - 1)
                         ELSE stack)
         ELSE PosixStack(Tail(segs), Append(stack, seg))

\* normalizePosixPath without the leading "/"
normalizePosixPathNoRoot(path) == Join(PosixStack(Split(path, "/"), <<>>))

\* normalizePosixPath(path)
normalizePosixPath(path) ==
    <<"/">> \o Join(PosixStack(Split(path, "/"), <<>>))

WttpScheme == <<"w", "t", "t", "p", ":", "/", "/">>

\* resolveRedirectPath ignoring the location: the request stays where it is
resolveRedirectPathKeepsCurrent(cur, location) == cur

\* resolveRedirectPath(currentPath, location)
resolveRedirectPath(cur, location) ==
    IF StartsWith(location, <<"/">>) THEN location
    ELSE IF StartsWith(location, WttpScheme)
    THEN LET parts == Split(location, ":")
         IN  normalizePath(parts[Len(parts)])
    ELSE LET baseDir == IF EndsWith(cur, <<"/">>)
                        THEN cur
                        ELSE SubSeq(cur, 1, LastIndexOfPlus1(cur, "/"))
         IN  normalizePosixPath(baseDir \o location)


(***************************************************************************)
(* Bounds of the model                                                     *)
(***************************************************************************)
\* longest chunk-identifier list a GET reply carries
MaxPoints == 2
\* largest totalChunks a GET reply declares
MaxTotalChunks == 3
\* longest stored chunk, in bytes
MaxChunkLen == 2
\* calls of resolveEnsAddress / checkEnsExists in flight at the same time
MaxInFlight == 2
\* calls of resolveEnsAddress / checkEnsExists started in a behaviour
MaxCalls == 3

\* longest path / location string of the path functions taken on their own
MaxPathLen == 3

Slots == 1..MaxInFlight

(***************************************************************************)
(* Program constants                                                       *)
(***************************************************************************)
\* options.maxRedirects default
DefaultMaxRedirects == 5

\* the statuses the redirect loop follows
RedirectCodes == {301, 302, 307, 308}

\* head.status === 200n || head.status === 206n
IsOk(status) == status = 200 \/ status = 206

\* fallbackPaths with a fifth candidate
fallbackPathsFive ==
    << <<"i", "n", "d", "e", "x", ".", "h", "t", "m", "l">>,
       <<"i", "n", "d", "e", "x", ".", "h", "t", "m">>,
       <<"i", "n", "d", "e", "x", ".", "m", "d">>,
       <<"i", "n", "d", "e", "x", ".", "t", "x", "t">>,
       <<"i", "n", "d", "e", "x", ".", "p", "h", "p">> >>

\* const fallbackPaths = ["index.html", "index.htm", "index.md", "index.txt"]
fallbackPaths ==
    << <<"i", "n", "d", "e", "x", ".", "h", "t", "m", "l">>,
       <<"i", "n", "d", "e", "x", ".", "h", "t", "m">>,
       <<"i", "n", "d", "e", "x", ".", "m", "d">>,
       <<"i", "n", "d", "e", "x", ".", "t", "x", "t">> >>

\* const defaultHead = { status: 404n, ... redirect: { code: 0n, location: "" } ... }
defaultHead == [status |-> 404, location |-> <<>>]

(***************************************************************************)
(* Inputs of a request and replies of the backend                          *)
(***************************************************************************)
\* config.siteAddress: absent, or a contract address (no name resolution)
SiteAddresses == {"", "0xSite"}

\* config.path: "/docs/" and "a.txt" (relative)
InputPaths ==
    { <<"/", "d", "o", "c", "s", "/">>,
      <<"a", ".", "t", "x", "t">> }

\* the redirect table of the site, head.headerInfo.redirect.location of a
\* redirecting HEAD reply at path p: /a.txt redirects to the relative "b",
\* every other path to the absolute "/a.txt" (so /a.txt -> /b -> /a.txt is a
\* cycle of length 2)
RedirectLocation(p) ==
    IF p = <<"/", "a", ".", "t", "x", "t">>
    THEN <<"b">>
    ELSE <<"/", "a", ".", "t", "x", "t">>

\* options.maxRedirects
MaxRedirectsChoices == {0, 1, DefaultMaxRedirects}

\* options.range: the default { start: 0, end: -1 } and a sub-range
DefaultRange == [start |-> 0, end |-> -1]
Ranges == {DefaultRange, [start |-> 1, end |-> 1]}

\* chunk identifiers (data point addresses) and byte strings
ChunkIds == {"c1", "c2"}
ByteValues == {0, 1}
ByteStrings == UNION {[1..n -> ByteValues] : n \in 0..MaxChunkLen}

\* the chunk identifiers of the site's resources, in order: c1 c2 c1 ...
\* (an identifier may repeat)
ResourceChunks == [k \in 1..MaxPoints |-> IF k % 2 = 1 THEN "c1" ELSE "c2"]

\* the chunk-identifier lists a GET reply may carry: any contiguous range of
\* the resource's chunks, the empty one included
PointLists ==
    {SubSeq(ResourceChunks, a, b) : a \in 1..(MaxPoints + 1), b \in 0..MaxPoints}

\* what siteContract.HEAD answers at path p: a failure (revert, transport
\* error, timeout), or a head of any status; a redirect status comes with the
\* site's location for p or with none
HeadReplies(p) ==
    {[ok |-> FALSE, status |-> 0, location |-> <<>>]}
    \cup {[ok |-> TRUE, status |-> st, location |-> <<>>] :
              st \in {200, 206, 304, 404} \cup RedirectCodes}
    \cup {[ok |-> TRUE, status |-> st, location |-> RedirectLocation(p)] :
              st \in RedirectCodes}

\* what one siteContract.GET answers: a failure, or a LOCATE response
GetReplies ==
    {[ok |-> FALSE, status |-> 0, dataPoints |-> <<>>, totalChunks |-> 0]}
    \cup [ok : {TRUE}, status : {200, 206, 404},
          dataPoints : PointLists, totalChunks : 0..MaxTotalChunks]

\* callGet(p, start, end): GET with object params and, when that throws, GET
\* again with array-encoded tuples; it throws only when both throw
callGet ==
    {g \in GetReplies : g.ok}
    \cup {g2 \in GetReplies : \E g1 \in GetReplies : ~g1.ok}

\* HeadOf with the catch block forgetting to substitute defaultHead
HeadOfNoDefault(r) ==
    [status |-> r.status, location |-> r.location]

\* the head of a HEAD reply; a failed HEAD is caught and replaced by defaultHead
HeadOf(r) ==
    IF r.ok THEN [status |-> r.status, location |-> r.location]
    ELSE defaultHead

\* the LOCATE response of a successful GET reply
ResponseOf(g) ==
    [head |-> [status |-> g.status, location |-> <<>>],
     dataPoints |-> g.dataPoints,
     totalChunks |-> g.totalChunks]

\* { head, resource: { dataPoints: [], totalChunks: 0 } }
HeadOnlyResponse(h) ==
    [head |-> h, dataPoints |-> <<>>, totalChunks |-> 0]

(***************************************************************************)
(* Chunk decoding and reassembly                                           *)
(***************************************************************************)
\* big-endian bytes of a number: leading zero bytes are not represented
RECURSIVE StripLeadingZeros(_)
StripLeadingZeros(b) ==
    IF b = <<>> THEN <<>>
    ELSE IF Head(b) = 0 THEN StripLeadingZeros(Tail(b))
    ELSE b

\* ethers.toBeArray(dataPointContent) throws on the empty hex string "0x"
\* (it is no BigNumberish)
toBeArrayThrows(b) == b = <<>>

\* new Uint8Array(ethers.toBeArray(dataPointContent)): the hex string is read
\* as an unsigned number and written back big-endian
toBeArray(b) == StripLeadingZeros(b)

\* totalBytesRead: the sum of the lengths of the chunks read
RECURSIVE TotalBytes(_)
TotalBytes(cs) ==
    IF cs = <<>> THEN 0 ELSE Len(Head(cs)) + TotalBytes(Tail(cs))

\* combined.set(chunk, offset)
SetAt(buf, chunk, offset) ==
    [j \in 1..Len(buf) |->
        IF offset < j /\ j <= offset + Len(chunk)
        THEN chunk[j - offset]
        ELSE buf[j]]

\* the loop "for (i...) { combined.set(chunk, offset); offset += chunk.length }"
RECURSIVE Combine(_, _, _)
Combine(buf, cs, offset) ==
    IF cs = <<>> THEN buf
    ELSE Combine(SetAt(buf, Head(cs), offset), Tail(cs), offset + Len(Head(cs)))

\* const combined = new Uint8Array(totalBytesRead), then the copy loop
Combined(cs) ==
    Combine([j \in 1..TotalBytes(cs) |-> 0], cs, 0)


(***************************************************************************)
(* Name resolution (ENS): names, networks and the naming backend           *)
(***************************************************************************)
\* NETWORK_CONFIGS.ethereum.chainId, the chain of the mainnet fallback
Mainnet == 1
\* NETWORK_CONFIGS.sepolia.chainId
Sepolia == 11155111
\* NETWORK_CONFIGS.polygon.chainId
Polygon == 137

\* the chains a provider passed to resolveEnsAddress / checkEnsExists is on
Chains == {Mainnet, Sepolia, Polygon}

\* the keys of ENS_CONFIGS: the chains that have a registry address
ENS_CONFIGS == {Mainnet, Sepolia}

\* String.prototype.toLowerCase, one character
LowerChar(c) ==
    CASE c = "A" -> "a"
      [] c = "B" -> "b"
      [] c = "E" -> "e"
      [] c = "T" -> "t"
      [] c = "H" -> "h"
      [] OTHER -> c

\* String.prototype.toLowerCase
toLowerCase(s) == [i \in 1..Len(s) |-> LowerChar(s[i])]

\* String.prototype.trim: white space removed at both ends
RECURSIVE trimStart(_)
trimStart(s) ==
    IF s # <<>> /\ Head(s) = " " THEN trimStart(Tail(s)) ELSE s

RECURSIVE trimEnd(_)
trimEnd(s) ==
    IF s # <<>> /\ s[Len(s)] = " " THEN trimEnd(SubSeq(s, 1, Len(s) - 1)) ELSE s

trim(s) == trimEnd(trimStart(s))

\* the domain argument of a call: a string, or a value that is no string
Str(chars) == [isString |-> TRUE, chars |-> chars]
NotAString == [isString |-> FALSE, chars |-> <<>>]

\* "a.eth", "A.eth " (same normalized form), "b.eth", and a non-string
Domains ==
    { Str(<<"a", ".", "e", "t", "h">>),
      Str(<<"A", ".", "e", "t", "h", " ">>),
      Str(<<"b", ".", "e", "t", "h">>),
      NotAString }

\* isEnsAddress(address)
isEnsAddress(address) ==
    /\ address.isString
    /\ EndsWith(toLowerCase(address.chars), <<".", "e", "t", "h">>)

\* the addressOrEns argument of getContractAddress: a domain, or the
\* contract address "0xS"
ContractArguments == Domains \cup {Str(<<"0", "x", "S">>)}

\* the provider argument of getContractAddress: null (0), or the provider
\* of a chain
NoProviderGiven == 0

\* normalizeEnsDomain throws "ENS domain must be a string"
normalizeThrows(domain) == ~domain.isString

\* normalizeEnsDomain: domain.toLowerCase().trim()
normalizeEnsDomain(domain) == trim(toLowerCase(domain.chars))

\* the keys the cache can get
NormalizedDomains == {normalizeEnsDomain(d) : d \in {x \in Domains : x.isString}}

AEth == <<"a", ".", "e", "t", "h">>
BEth == <<"b", ".", "e", "t", "h">>

\* what a lookup of a name on a chain runs into: registry.resolver(node)
\* throws, it returns the zero address, resolver.addr(node) throws, it
\* returns the zero address ...
LookupFailures == {"RegistryCallFailed", "NoResolver", "ResolverCallFailed", "NoAddress"}

\* ... or resolver.addr(node) returns the address bound to the name
Addresses == {"0xS", "0xM", "0xB"}

\* the naming backends: a.eth is bound to 0xS on Sepolia or its lookup fails
\* there in one of the four ways, likewise 0xM on mainnet; b.eth is bound to
\* 0xB on Sepolia and has no resolver on mainnet.  The backend of a behaviour
\* never changes.
NamingBackends ==
    { [c \in ENS_CONFIGS |->
         [n \in NormalizedDomains |->
            IF n = AEth THEN (IF c = Sepolia THEN s ELSE m)
            ELSE IF c = Sepolia THEN "0xB" ELSE "NoResolver"]] :
      s \in LookupFailures \cup {"0xS"}, m \in LookupFailures \cup {"0xM"} }

\* the replies of registry.owner(node)
OwnerReplies == {"OwnerCallFailed", "ZeroAddress", "0xOwner"}

\* a backend query a call has issued
Query(chain, fn) == [on |-> chain, fn |-> fn]

\* an Error: what went wrong, and on which chain (the messages of
\* tryResolveOnNetwork name the chain)
Err(kind, chain) == [kind |-> kind, on |-> chain]
NoErr == Err("", 0)

\* a call slot that is not in use
IdleCall ==
    [pc |-> "idle", op |-> "none", chain |-> 0, name |-> <<>>,
     fallbackToMainnet |-> FALSE, useCache |-> FALSE, queryLog |-> <<>>,
     error |-> NoErr, fallbackError |-> NoErr, value |-> "", thrown |-> "",
     cause |-> <<>>, expect |-> "", argument |-> NotAString,
     returnedArgument |-> FALSE]

(***************************************************************************)
(* Network selectors and endpoints (getProvider)                           *)
(***************************************************************************)
\* chain ids of the network table besides Mainnet, Sepolia and Polygon, and
\* a chain id the table does not have
Localhost == 31337
UnknownChain == 999

PolygonName == <<"p", "o", "l", "y", "g", "o", "n">>
EthereumName == <<"e", "t", "h", "e", "r", "e", "u", "m">>
SepoliaName == <<"s", "e", "p", "o", "l", "i", "a">>
LocalhostName == <<"l", "o", "c", "a", "l", "h", "o", "s", "t">>

\* const NETWORK_CONFIGS = { polygon: {...}, ethereum: {...}, sepolia: {...},
\* localhost: {...} }, by own key
NETWORK_CONFIGS ==
    [name \in {PolygonName, EthereumName, SepoliaName, LocalhostName} |->
        CASE name = PolygonName ->
                [chainId |-> Polygon,
                 rpcUrl |-> <<"h", "t", "t", "p", "s", ":", "/", "/", "p", "o", "l", "y", "g", "o", "n", "-", "b", "o", "r", "-", "r", "p", "c", ".", "p", "u", "b", "l", "i", "c", "n", "o", "d", "e", ".", "c", "o", "m">>]
          [] name = EthereumName ->
                [chainId |-> Mainnet,
                 rpcUrl |-> <<"h", "t", "t", "p", "s", ":", "/", "/", "e", "t", "h", ".", "l", "l", "a", "m", "a", "r", "p", "c", ".", "c", "o", "m">>]
          [] name = SepoliaName ->
                [chainId |-> Sepolia,
                 rpcUrl |-> <<"h", "t", "t", "p", "s", ":", "/", "/", "e", "t", "h", "e", "r", "e", "u", "m", "-", "s", "e", "p", "o", "l", "i", "a", "-", "r", "p", "c", ".", "p", "u", "b", "l", "i", "c", "n", "o", "d", "e", ".", "c", "o", "m">>]
          [] name = LocalhostName ->
                [chainId |-> Localhost,
                 rpcUrl |-> <<"h", "t", "t", "p", ":", "/", "/", "1", "2", "7", ".", "0", ".", "0", ".", "1", ":", "8", "5", "4", "5">>]]

\* Object.keys(NETWORK_CONFIGS), in insertion order
ObjectKeys == <<PolygonName, EthereumName, SepoliaName, LocalhostName>>

\* property names every object literal inherits from Object.prototype
\* ("toString" and "constructor" of them): NETWORK_CONFIGS[name] is a
\* function for these, not a configuration
ObjectPrototypeKeys == {<<"t", "o", "S", "t", "r", "i", "n", "g">>, <<"c", "o", "n", "s", "t", "r", "u", "c", "t", "o", "r">>}

\* NETWORK_CONFIGS[name]: whether the value is truthy, and its rpcUrl (<<>>
\* for undefined)
Lookup(name) ==
    IF name \in DOMAIN NETWORK_CONFIGS
    THEN [truthy |-> TRUE, rpcUrl |-> NETWORK_CONFIGS[name].rpcUrl]
    ELSE IF name \in ObjectPrototypeKeys
    THEN [truthy |-> TRUE, rpcUrl |-> <<>>]
    ELSE [truthy |-> FALSE, rpcUrl |-> <<>>]

DecimalDigits == <<"0", "1", "2", "3", "4", "5", "6", "7", "8", "9">>

\* Number.prototype.toString of a non-negative integer
RECURSIVE NumberToString(_)
NumberToString(n) ==
    IF n < 10 THEN <<DecimalDigits[n + 1]>>
    ELSE Append(NumberToString(n \div 10), DecimalDigits[(n % 10) + 1])

\* /^\d+$/.test(s)
AllDigits(s) ==
    /\ s # <<>>
    /\ \A i \in 1..Len(s) : \E d \in 1..10 : s[i] = DecimalDigits[d]

\* a value of config.network, or of getProvider's network parameter:
\* undefined, a string or a number
Absent == [type |-> "undefined", text |-> <<>>, number |-> 0]
Text(t) == [type |-> "string", text |-> t, number |-> 0]
Number(n) == [type |-> "number", text |-> <<>>, number |-> n]

\* the name of no network
UnknownName == <<"m", "a", "i", "n", "n", "e", "t">>

\* an RPC URL
RpcUrl == <<"h", "t", "t", "p", "s", ":", "/", "/", "r">>

\* config.network: absent; the names polygon and ethereum, a name of no
\* network, a name Object.prototype has, the empty string; an RPC URL; the
\* chain ids of polygon and ethereum and an unknown one, as number and as
\* numeric string
Selectors ==
    {Absent}
    \cup {Text(t) : t \in {PolygonName, EthereumName, UnknownName,
                          <<"t", "o", "S", "t", "r", "i", "n", "g">>, <<>>, RpcUrl}}
    \cup {Text(NumberToString(n)) : n \in {Polygon, Mainnet, UnknownChain}}
    \cup {Number(n) : n \in {Polygon, Mainnet, UnknownChain}}

\* getNetworkFromChain with no default: the chain id is handed on
getNetworkFromChainIdentity(chainId) == chainId

\* getNetworkFromChain(chainId)
getNetworkFromChain(chainId) ==
    CASE chainId = NumberToString(Mainnet) -> EthereumName
      [] chainId = NumberToString(Polygon) -> PolygonName
      [] chainId = NumberToString(Sepolia) -> SepoliaName
      [] chainId = NumberToString(Localhost) -> LocalhostName
      [] OTHER -> PolygonName

\* let resolvedNetwork: the smart network parameter detection
resolvedNetwork(network) ==
    IF network.type = "string"
    THEN IF AllDigits(network.text)
         THEN Text(getNetworkFromChain(network.text))
         ELSE network
    ELSE IF network.type = "number"
    THEN Text(getNetworkFromChain(NumberToString(network.number)))
    ELSE network

\* a value is truthy: a non-empty string (no number reaches getProvider)
Truthy(network) == network.type = "string" /\ network.text # <<>>

\* const networkKey = network || "polygon"
networkKey(network) == IF Truthy(network) THEN network.text ELSE PolygonName

\* the keys providerCache can get
ProviderKeys == {networkKey(resolvedNetwork(sel)) : sel \in Selectors}

\* network && (network.startsWith("http://") || network.startsWith("https://"))
IsUrl(network) ==
    /\ Truthy(network)
    /\ \/ StartsWith(network.text, <<"h", "t", "t", "p", ":", "/", "/">>)
       \/ StartsWith(network.text, <<"h", "t", "t", "p", "s", ":", "/", "/">>)

\* a JsonRpcProvider: the id-th object constructed, for the URL url (<<>>
\* for undefined); id 0 is no provider (undefined)
JsonRpcProvider(id, url) == [id |-> id, url |-> url, custom |-> FALSE]
NoProvider == [id |-> 0, url |-> <<>>, custom |-> FALSE]

\* config.provider, when the caller brings its own
CustomProvider == [id |-> 0, url |-> <<>>, custom |-> TRUE]

\* new Error(`Unsupported network: ${network}. Supported networks: ${...}`)
UnsupportedNetwork(network) ==
    [kind |-> "UnsupportedNetwork", network |-> network.text, supported |-> ObjectKeys]
NoProviderError == [kind |-> "none", network |-> <<>>, supported |-> <<>>]

\* the chain id provider.getNetwork() reports for the endpoint at url
ChainIdAt(url) ==
    IF \E name \in DOMAIN NETWORK_CONFIGS : NETWORK_CONFIGS[name].rpcUrl = url
    THEN NETWORK_CONFIGS[CHOOSE name \in DOMAIN NETWORK_CONFIGS :
                            NETWORK_CONFIGS[name].rpcUrl = url].chainId
    ELSE UnknownChain

\* a call slot of getProvider that is not in use
IdleProviderCall ==
    [pc |-> "idle", selector |-> Absent, custom |-> FALSE, key |-> <<>>,
     provider |-> NoProvider, error |-> NoProviderError]

(***************************************************************************)
(* State                                                                   *)
(***************************************************************************)
VARIABLES
    siteAddress,     \* config.siteAddress
    inputPath,       \* config.path
    headRequest,     \* options.headRequest
    datapoints,      \* options.datapoints
    maxRedirects,    \* options.maxRedirects
    range,           \* options.range
    store,           \* the storage backend: chunk identifier -> stored bytes
    pc,              \* where the request is
    currentPath,     \* let currentPath
    head,            \* let head
    redirectsLeft,   \* let redirectsLeft
    candidate,       \* index into fallbackPaths of the candidate probed next
    locateResponse,  \* let locateResponse (and const probe on the direct GET path)
    via,             \* which call site of readDataPointsContent is running
    dataPoints,      \* readDataPointsContent's argument
    contents,        \* const contents = [] of readDataPointsContent
    result,          \* the value fetchWTTPResource resolves with, once pc = "done"
    error,           \* the error it rejects with, once pc = "thrown"
    headLog,         \* the paths of the HEAD calls issued so far
    headFailed,      \* whether head is the defaultHead that replaced a HEAD
                     \* call that threw
    getLog,          \* the callGet invocations so far: path, start, end
    getFailed,       \* whether the last callGet invocation threw
    reads,           \* the chunk identifiers readDataPoint was asked for so far
    ensResolutionCache, \* const ensResolutionCache = new Map(): normalized
                     \* name -> address, "" where the Map has no entry
    naming,          \* the naming backend: chain -> normalized name -> what
                     \* the lookup of the name runs into
    calls,           \* the calls of resolveEnsAddress / checkEnsExists: where
                     \* each is, its arguments and locals, what it settled with
    started,         \* how many such calls have been started
    firstResolved,   \* normalized name -> the address the first successful
                     \* resolve with useCache returned, "" before that
    providerCache,   \* const providerCache = new Map(): networkKey ->
                     \* provider, NoProvider where the Map has no entry
    networkInfoCache,\* const networkInfoCache = new Map(): the chain ids it
                     \* has an entry for
    providerCalls,   \* the calls of getProvider: where each is, its
                     \* arguments and locals, what it settled with
    providerStarted, \* how many such calls have been started
    constructed      \* the networkKey of every new JsonRpcProvider(...), in
                     \* the order of construction

vars ==
    <<siteAddress, inputPath, headRequest, datapoints, maxRedirects, range,
      store, pc, currentPath, head, redirectsLeft, candidate, locateResponse,
      via, dataPoints, contents, result, error, headLog, headFailed, getLog,
      getFailed, reads, ensResolutionCache, naming, calls, started,
      firstResolved, providerCache, networkInfoCache, providerCalls,
      providerStarted, constructed>>

config == <<siteAddress, inputPath, headRequest, datapoints, maxRedirects, range, store>>

\* the state of a request
fetchVars ==
    <<config, pc, currentPath, head, redirectsLeft, candidate, locateResponse,
      via, dataPoints, contents, result, error, headLog, headFailed, getLog,
      getFailed, reads>>

\* the state of name resolution
ensVars == <<ensResolutionCache, naming, calls, started, firstResolved>>

\* no name is being resolved (the site address of the request is a contract
\* address): empty cache, no call
EnsQuiet ==
    /\ ensResolutionCache = [n \in NormalizedDomains |-> ""]
    /\ naming = [c \in ENS_CONFIGS |-> [n \in NormalizedDomains |-> "NoResolver"]]
    /\ calls = [s \in Slots |-> IdleCall]
    /\ started = 0
    /\ firstResolved = [n \in NormalizedDomains |-> ""]

\* the state of the endpoints
providerVars ==
    <<providerCache, networkInfoCache, providerCalls, providerStarted, constructed>>

\* no endpoint has been asked for: empty caches, no call
ProviderQuiet ==
    /\ providerCache = [k \in ProviderKeys |-> NoProvider]
    /\ networkInfoCache = {}
    /\ providerCalls = [s \in Slots |-> IdleProviderCall]
    /\ providerStarted = 0
    /\ constructed = <<>>

NoError == [kind |-> "none", index |-> 0, total |-> 0]
NoResult ==
    [response |-> HeadOnlyResponse(defaultHead), hasContent |-> FALSE, content |-> <<>>]

\* the storage the requests of Spec run against: c1 begins with a zero byte
FetchStore == [c \in ChunkIds |-> IF c = "c1" THEN <<0, 1>> ELSE <<1>>]

Init ==
    /\ siteAddress \in SiteAddresses
    /\ inputPath \in InputPaths
    /\ headRequest \in BOOLEAN
    /\ datapoints \in BOOLEAN
    /\ maxRedirects \in MaxRedirectsChoices
    /\ range \in Ranges
    /\ store = FetchStore
    /\ pc = "start"
    /\ currentPath = <<>>
    /\ head = defaultHead
    /\ redirectsLeft = 0
    /\ candidate = 1
    /\ locateResponse = HeadOnlyResponse(defaultHead)
    /\ via = "none"
    /\ dataPoints = <<>>
    /\ contents = <<>>
    /\ result = NoResult
    /\ error = NoError
    /\ headLog = <<>>
    /\ headFailed = FALSE
    /\ getLog = <<>>
    /\ getFailed = FALSE
    /\ reads = <<>>
    /\ EnsQuiet
    /\ ProviderQuiet

(***************************************************************************)
(* fetchWTTPResource                                                       *)
(***************************************************************************)
\* return { response, content }
Return(response, hasContent, content) ==
    /\ pc' = "done"
    /\ result' = [response |-> response, hasContent |-> hasContent, content |-> content]
    /\ error' = error

\* throw new Error(...)
Throw(kind, index, total) ==
    /\ pc' = "thrown"
    /\ error' = [kind |-> kind, index |-> index, total |-> total]
    /\ result' = result

\* stay in the request, at the place next
Goto(next) ==
    /\ pc' = next
    /\ UNCHANGED <<result, error>>

\* FirstStage with the headRequest branch missing
FirstStageAlwaysGet(headOnly) == "loop"

\* FirstStage sending a HEAD request to the index probing
FirstStageProbesIndex(headOnly) == IF headOnly THEN "fallback" ELSE "loop"

\* if (headRequest) { ... } else { ... }
FirstStage(headOnly) == IF headOnly THEN "head" ELSE "loop"

\* parameter validation, normalizePath(inputPath || "/"), options defaults;
\* the connectivity diagnostics (getNetwork, DPS, getCode) catch every
\* failure and change nothing
Start ==
    /\ pc = "start"
    /\ IF siteAddress = ""
       THEN /\ Throw("SiteAddressRequired", 0, 0)
            /\ UNCHANGED <<currentPath, redirectsLeft>>
       ELSE /\ currentPath' = normalizePath(IF inputPath = <<>> THEN <<"/">> ELSE inputPath)
            /\ redirectsLeft' = maxRedirects
            /\ Goto(FirstStage(headRequest))
    /\ UNCHANGED <<config, ensVars, providerVars, head, candidate, locateResponse, via, dataPoints,
                   contents, headLog, headFailed, getLog, getFailed, reads>>

\* if (headRequest) { try { head = await siteContract.HEAD(...) } catch { defaultHead } }
HeadOnly ==
    /\ pc = "head"
    /\ \E r \in HeadReplies(currentPath) :
        /\ headLog' = Append(headLog, currentPath)
        /\ headFailed' = ~r.ok
        /\ Return(HeadOnlyResponse(HeadOf(r)), FALSE, <<>>)
    /\ UNCHANGED <<config, ensVars, providerVars, currentPath, head, redirectsLeft, candidate,
                   locateResponse, via, dataPoints, contents, getLog, getFailed, reads>>

\* looksLikeDirectory taking every path for a directory
looksLikeDirectoryAlways(p) == TRUE

\* currentPath.endsWith("/") || !currentPath.includes(".")
looksLikeDirectory(p) == EndsWith(p, <<"/">>) \/ ~Includes(p, ".")

\* FollowsRedirect without the redirectsLeft > 0 test
FollowsRedirectNoBudget(h, left) ==
    /\ h.status \in RedirectCodes
    /\ h.location # <<>>

\* the redirect test of the loop
FollowsRedirect(h, left) ==
    /\ h.status \in RedirectCodes
    /\ h.location # <<>>
    /\ left > 0

\* AfterLoop probing the index candidates for every status that is not 200/206
AfterLoopAnyStatus(h, p) ==
    IF IsOk(h.status) THEN "locate"
    ELSE IF looksLikeDirectory(p) THEN "fallback"
    ELSE "probe"

\* where the request goes once the redirect loop is left with head h at path p
AfterLoop(h, p) ==
    IF IsOk(h.status) THEN "locate"
    ELSE IF h.status = 404 /\ looksLikeDirectory(p) THEN "fallback"
    ELSE "probe"

\* one iteration of while (true): HEAD at currentPath, then follow or break
LoopHead ==
    /\ pc = "loop"
    /\ \E r \in HeadReplies(currentPath) :
        LET h == HeadOf(r) IN
        /\ headLog' = Append(headLog, currentPath)
        /\ headFailed' = ~r.ok
        /\ head' = h
        /\ IF FollowsRedirect(h, redirectsLeft)
           THEN /\ currentPath' = resolveRedirectPath(currentPath, h.location)
                /\ redirectsLeft' = redirectsLeft - 1
                /\ Goto("loop")
           ELSE /\ UNCHANGED <<currentPath, redirectsLeft>>
                /\ Goto(AfterLoop(h, currentPath))
    /\ UNCHANGED <<config, ensVars, providerVars, candidate, locateResponse, via, dataPoints,
                   contents, getLog, getFailed, reads>>

\* normalizePath(currentPath.endsWith("/") ? currentPath + candidate
\*                                         : currentPath + "/" + candidate)
candidatePath(p, c) ==
    normalizePath(IF EndsWith(p, <<"/">>) THEN p \o c ELSE p \o <<"/">> \o c)

\* one iteration of for (const candidate of fallbackPaths)
FallbackHead ==
    /\ pc = "fallback"
    /\ \E r \in HeadReplies(candidatePath(currentPath, fallbackPaths[candidate])) :
        LET cp == candidatePath(currentPath, fallbackPaths[candidate]) IN
        /\ headLog' = Append(headLog, cp)
        /\ IF r.ok /\ IsOk(r.status)
           THEN /\ head' = HeadOf(r)
                /\ headFailed' = FALSE
                /\ currentPath' = cp
                /\ candidate' = candidate
                /\ Goto("locate")
           ELSE /\ UNCHANGED <<head, headFailed, currentPath>>
                /\ IF candidate < Len(fallbackPaths)
                   THEN /\ candidate' = candidate + 1
                        /\ Goto("fallback")
                   ELSE /\ candidate' = candidate
                        /\ Goto("probe")
    /\ UNCHANGED <<config, ensVars, providerVars, redirectsLeft, locateResponse, via, dataPoints,
                   contents, getLog, getFailed, reads>>

\* the entry of readDataPointsContent(provider, siteAddress, points), up to
\* its first await
EnterRead(points, site) ==
    /\ dataPoints' = points
    /\ contents' = <<>>
    /\ IF siteAddress = "" \/ Len(points) = 0
       THEN IF site = "probe"
            THEN Return(HeadOnlyResponse(head), FALSE, <<>>)
            ELSE Throw("InvalidArgument", 0, 0)
       ELSE Goto("dps")

\* ReadRejects reporting the zero-based loop index i instead of i + 1
ReadRejectsZeroBased(kind, index, total) ==
    IF via = "probe"
    THEN Return(HeadOnlyResponse(head), FALSE, <<>>)
    ELSE Throw(kind, IF index > 0 THEN index - 1 ELSE 0, total)

\* a rejection of readDataPointsContent: the direct GET probe awaits it
\* inside try { ... } catch (_) { /* ignore */ } and goes on to return the
\* HEAD-only result; the content load after the GET lets it propagate
ReadRejects(kind, index, total) ==
    IF via = "probe"
    THEN Return(HeadOnlyResponse(head), FALSE, <<>>)
    ELSE Throw(kind, index, total)

\* if still not ok, try GET directly; then return HEAD-only
DirectGet ==
    /\ pc = "probe"
    /\ getLog' = Append(getLog, [path |-> currentPath, start |-> range.start, end |-> range.end])
    /\ \E g \in callGet :
        /\ getFailed' = ~g.ok
        /\ IF g.ok /\ IsOk(g.status)
           THEN /\ locateResponse' = ResponseOf(g)
                /\ IF Len(g.dataPoints) > 0 /\ ~datapoints
                   THEN /\ via' = "probe"
                        /\ EnterRead(g.dataPoints, "probe")
                   ELSE /\ Return(ResponseOf(g), FALSE, <<>>)
                        /\ UNCHANGED <<via, dataPoints, contents>>
           ELSE /\ Return(HeadOnlyResponse(head), FALSE, <<>>)
                /\ UNCHANGED <<locateResponse, via, dataPoints, contents>>
    /\ UNCHANGED <<config, ensVars, providerVars, currentPath, head, redirectsLeft, candidate, headLog, headFailed, reads>>


\* Finish loading the content whether or not options.datapoints is set
FinishIgnoresDatapoints(L) ==
    IF IsOk(L.head.status) /\ Len(L.dataPoints) > 0
    THEN /\ via' = "normal"
         /\ EnterRead(L.dataPoints, "normal")
    ELSE /\ Return(L, FALSE, <<>>)
         /\ UNCHANGED <<via, dataPoints, contents>>

\* Finish without the dataPoints.length > 0 test
FinishNoLengthTest(L) ==
    IF ~datapoints /\ IsOk(L.head.status)
    THEN /\ via' = "normal"
         /\ EnterRead(L.dataPoints, "normal")
    ELSE /\ Return(L, FALSE, <<>>)
         /\ UNCHANGED <<via, dataPoints, contents>>

\* the content load after the GET: readDataPointsContent when content is
\* wanted, the response is 200/206 and it has chunk identifiers
Finish(L) ==
    IF ~datapoints /\ IsOk(L.head.status) /\ Len(L.dataPoints) > 0
    THEN /\ via' = "normal"
         /\ EnterRead(L.dataPoints, "normal")
    ELSE /\ Return(L, FALSE, <<>>)
         /\ UNCHANGED <<via, dataPoints, contents>>

\* NeedsRepair without the totalChunks > 0 test, a complete list included
NeedsRepairNoTotalTest(L) == Len(L.dataPoints) <= L.totalChunks

\* NeedsRepair never asking for the repair
NeedsRepairNever(L) == FALSE

\* totalChunks > 0 && dataPoints.length < totalChunks
NeedsRepair(L) == L.totalChunks > 0 /\ Len(L.dataPoints) < L.totalChunks

\* NeedsFirstChunk never asking for the first chunk
NeedsFirstChunkNever(L) == FALSE

\* status 200/206 && totalChunks > 0 && dataPoints.length === 0
NeedsFirstChunk(L) ==
    IsOk(L.head.status) /\ L.totalChunks > 0 /\ Len(L.dataPoints) = 0

\* the code after the repair step, with locateResponse = L
AfterRepair(L) ==
    IF NeedsFirstChunk(L)
    THEN /\ Goto("firstChunk")
         /\ UNCHANGED <<via, dataPoints, contents>>
    ELSE Finish(L)

\* the code after a GET that answered L
AfterLocate(L) ==
    /\ locateResponse' = L
    /\ IF NeedsRepair(L)
       THEN /\ Goto("repair")
            /\ UNCHANGED <<via, dataPoints, contents>>
       ELSE AfterRepair(L)

\* let locateResponse = { head, no resource };
\* locateResponse = await callGet(currentPath, range.start, range.end)
Locate ==
    /\ pc = "locate"
    /\ getLog' = Append(getLog, [path |-> currentPath, start |-> range.start, end |-> range.end])
    /\ \E g \in callGet :
        /\ getFailed' = ~g.ok
        /\ IF g.ok
           THEN AfterLocate(ResponseOf(g))
           ELSE /\ locateResponse' = HeadOnlyResponse(head)
                /\ Goto("retry")
                /\ UNCHANGED <<via, dataPoints, contents>>
    /\ UNCHANGED <<config, ensVars, providerVars, currentPath, head, redirectsLeft, candidate, headLog, headFailed, reads>>

\* RetryRange repeating the caller's range
RetryRangeSame == range

\* the safe default range {0, -1} of the retry
RetryRange == [start |-> 0, end |-> -1]

\* catch: locateResponse = await callGet(currentPath, 0n, -1n); if that
\* throws too, return { head, no resource }
LocateRetry ==
    /\ pc = "retry"
    /\ getLog' = Append(getLog, [path |-> currentPath, start |-> RetryRange.start,
                                 end |-> RetryRange.end])
    /\ \E g \in callGet :
        /\ getFailed' = ~g.ok
        /\ IF g.ok
           THEN AfterLocate(ResponseOf(g))
           ELSE /\ Return(HeadOnlyResponse(head), FALSE, <<>>)
                /\ UNCHANGED <<locateResponse, via, dataPoints, contents>>
    /\ UNCHANGED <<config, ensVars, providerVars, currentPath, head, redirectsLeft, candidate, headLog, headFailed, reads>>

\* fullResponse = await callGet(currentPath, 0n, totalChunks - 1), adopted
\* when it has more chunk identifiers; a failure is caught
Repair ==
    /\ pc = "repair"
    /\ getLog' = Append(getLog, [path |-> currentPath, start |-> 0,
                                 end |-> locateResponse.totalChunks - 1])
    /\ \E g \in callGet :
        LET L == IF g.ok /\ Len(g.dataPoints) > Len(locateResponse.dataPoints)
                 THEN ResponseOf(g)
                 ELSE locateResponse
        IN  /\ getFailed' = ~g.ok
            /\ locateResponse' = L
            /\ AfterRepair(L)
    /\ UNCHANGED <<config, ensVars, providerVars, currentPath, head, redirectsLeft, candidate, headLog, headFailed, reads>>

\* firstChunk = await callGet(currentPath, 0n, 0n), adopted whatever it
\* answers; a failure is caught
FirstChunk ==
    /\ pc = "firstChunk"
    /\ getLog' = Append(getLog, [path |-> currentPath, start |-> 0, end |-> 0])
    /\ \E g \in callGet :
        LET L == IF g.ok THEN ResponseOf(g) ELSE locateResponse
        IN  /\ getFailed' = ~g.ok
            /\ locateResponse' = L
            /\ Finish(L)
    /\ UNCHANGED <<config, ensVars, providerVars, currentPath, head, redirectsLeft, candidate, headLog, headFailed, reads>>

(***************************************************************************)
(* readDataPointsContent                                                   *)
(***************************************************************************)
\* const dpsAddress = await siteContract.DPS()
DPS ==
    /\ pc = "dps"
    /\ \E ok \in BOOLEAN :
        IF ok THEN Goto("read") ELSE ReadRejects("DpsFailed", 0, 0)
    /\ UNCHANGED <<config, ensVars, providerVars, currentPath, head, redirectsLeft, candidate,
                   locateResponse, via, dataPoints, contents, headLog, headFailed, getLog,
                   getFailed, reads>>

\* one iteration of the read loop: readDataPoint(dataPoints[i]), toBeArray,
\* contents.push(chunk); after the last one, the chunks are combined
ReadDataPoint ==
    /\ pc = "read"
    /\ LET i == Len(contents) + 1
           id == dataPoints[i]
       IN  /\ reads' = Append(reads, id)
           /\ \E ok \in BOOLEAN :
               IF ok /\ ~toBeArrayThrows(store[id])
               THEN /\ contents' = Append(contents, toBeArray(store[id]))
                    /\ IF i = Len(dataPoints)
                       THEN Return(locateResponse, TRUE, Combined(contents'))
                       ELSE Goto("read")
               ELSE /\ contents' = contents
                    /\ ReadRejects("ReadFailed", i, Len(dataPoints))
    /\ UNCHANGED <<config, ensVars, providerVars, currentPath, head, redirectsLeft, candidate,
                   locateResponse, via, dataPoints, headLog, headFailed, getLog, getFailed>>

Next ==
    \/ Start
    \/ HeadOnly
    \/ LoopHead
    \/ FallbackHead
    \/ DirectGet
    \/ Locate
    \/ LocateRetry
    \/ Repair
    \/ FirstChunk
    \/ DPS
    \/ ReadDataPoint

Spec == Init /\ [][Next]_vars

\* every backend call of a request returns or fails: the continuation of
\* every await runs
SpecLive == Spec /\ WF_vars(Next)

(***************************************************************************)
(* readDataPointsContent on its own: any chunk-identifier list (the empty  *)
(* one and repeated identifiers included) against any storage content      *)
(***************************************************************************)
AllPointLists == UNION {[1..n -> ChunkIds] : n \in 0..MaxPoints}

InitReassemble ==
    /\ siteAddress \in SiteAddresses
    /\ inputPath = <<>>
    /\ headRequest = FALSE
    /\ datapoints = FALSE
    /\ maxRedirects = DefaultMaxRedirects
    /\ range = DefaultRange
    /\ store \in [ChunkIds -> ByteStrings]
    /\ pc = "reassemble"
    /\ currentPath = <<"/">>
    /\ head = defaultHead
    /\ redirectsLeft = 0
    /\ candidate = 1
    /\ locateResponse = HeadOnlyResponse(defaultHead)
    /\ via = "normal"
    /\ dataPoints \in AllPointLists
    /\ contents = <<>>
    /\ result = NoResult
    /\ error = NoError
    /\ headLog = <<>>
    /\ headFailed = FALSE
    /\ getLog = <<>>
    /\ getFailed = FALSE
    /\ reads = <<>>
    /\ EnsQuiet
    /\ ProviderQuiet

\* the call readDataPointsContent(provider, siteAddress, dataPoints)
CallRead ==
    /\ pc = "reassemble"
    /\ EnterRead(dataPoints, "normal")
    /\ UNCHANGED <<config, ensVars, providerVars, currentPath, head, redirectsLeft, candidate,
                   locateResponse, via, headLog, headFailed, getLog, getFailed, reads>>

NextReassemble ==
    \/ CallRead
    \/ DPS
    \/ ReadDataPoint

SpecReassemble == InitReassemble /\ [][NextReassemble]_vars


(***************************************************************************)
(* resolveEnsAddress and checkEnsExists: calls in flight share the cache   *)
(***************************************************************************)
\* the call of slot s has returned or thrown and its caller has not taken the
\* outcome yet
Settled(s) == calls[s].pc \in {"returned", "thrown"}

\* a settled promise is delivered to its awaiting caller (a microtask) before
\* any reply of the backend is handled or any other call is started
NoneSettled == \A s \in Slots : ~Settled(s)

\* a new call takes the first free slot
FreeSlot(s) ==
    /\ calls[s].pc = "idle"
    /\ \A t \in Slots : t < s => calls[t].pc # "idle"

\* getCachedEnsAddress(domain): ensResolutionCache.get(normalizeEnsDomain(domain))
getCachedEnsAddress(name) == ensResolutionCache[normalizeEnsDomain(Str(name))]

\* setCachedEnsAddress storing the address under every name
setCachedEnsAddressAnyName(name, address) ==
    [n \in NormalizedDomains |-> address]

\* setCachedEnsAddress(domain, address): the cache after
\* ensResolutionCache.set(normalizeEnsDomain(domain), address)
setCachedEnsAddress(name, address) ==
    [ensResolutionCache EXCEPT ![normalizeEnsDomain(Str(name))] = address]

\* the call of slot s becomes c
SetCall(s, c) == calls' = [calls EXCEPT ![s] = c]

\* the call returns value
Returned(s, c, value) ==
    SetCall(s, [c EXCEPT !.pc = "returned", !.value = value])

\* the call rejects with an error of this kind, whose message carries the
\* messages of these errors
Rejected(s, c, kind, cause) ==
    SetCall(s, [c EXCEPT !.pc = "thrown", !.thrown = kind, !.cause = cause])

\* the call issues the backend query fn on chain and awaits it at pc next
Await(s, c, next, chain, fn) ==
    SetCall(s, [c EXCEPT !.pc = next,
                         !.queryLog = Append(c.queryLog, Query(chain, fn))])

\* the chain of the query the call is awaiting
AwaitedChain(c) == c.queryLog[Len(c.queryLog)].on

\* FinalCause carrying the fallback's error instead of the original one
FinalCauseOfFallback(originalError, fallbackError) ==
    IF fallbackError # NoErr THEN <<fallbackError>> ELSE <<originalError>>

\* throw new Error(`ENS resolution failed for ${normalizedDomain}:
\* ${error.message}. ...`): the errors whose messages the final error carries
FinalCause(originalError, fallbackError) == <<originalError>>

\* FallsBack without the chainId !== 1 test
FallsBackOnAnyChain(fallbackToMainnet, chainId) == fallbackToMainnet

\* if (fallbackToMainnet && chainId !== 1)
FallsBack(fallbackToMainnet, chainId) == fallbackToMainnet /\ chainId # Mainnet

\* Failed caching the zero address for the name that did not resolve
FailedCachingZero(s, c, kind) ==
    /\ Rejected(s, [c EXCEPT !.error = Err(kind, c.chain)], "EnsResolutionFailed",
                <<Err(kind, c.chain)>>)
    /\ ensResolutionCache' = setCachedEnsAddress(c.name, "0x0")
    /\ firstResolved' = firstResolved

\* tryResolveOnNetwork threw kind: the catch blocks of resolveEnsAddress.
\* After the requested network, the mainnet fallback is tried when enabled
\* and not on mainnet already; after the fallback, or without one, the final
\* error is thrown.  Nothing is cached.
Failed(s, c, kind) ==
    /\ IF c.error = NoErr
       THEN LET e == Err(kind, c.chain)
                c1 == [c EXCEPT !.error = e] IN
            IF FallsBack(c.fallbackToMainnet, c.chain)
            THEN IF Mainnet \in ENS_CONFIGS
                 THEN Await(s, c1, "resolver", Mainnet, "resolver")
                 ELSE Rejected(s, [c1 EXCEPT !.fallbackError = Err("NotSupported", Mainnet)],
                               "EnsResolutionFailed",
                               FinalCause(e, Err("NotSupported", Mainnet)))
            ELSE Rejected(s, c1, "EnsResolutionFailed", FinalCause(e, NoErr))
       ELSE Rejected(s, [c EXCEPT !.fallbackError = Err(kind, Mainnet)],
                     "EnsResolutionFailed", FinalCause(c.error, Err(kind, Mainnet)))
    /\ UNCHANGED <<ensResolutionCache, firstResolved>>

\* if (useCache) { setCachedEnsAddress(normalizedDomain, address) }
CachesResult(useCache) == useCache

\* tryResolveOnNetwork returned address: it is cached when useCache is on,
\* and returned
Resolved(s, c, address) ==
    /\ Returned(s, c, address)
    /\ ensResolutionCache' =
         (IF CachesResult(c.useCache) THEN setCachedEnsAddress(c.name, address)
          ELSE ensResolutionCache)
    /\ firstResolved' =
         (IF c.useCache /\ firstResolved[c.name] = ""
          THEN [firstResolved EXCEPT ![c.name] = address]
          ELSE firstResolved)

\* HitsCache looking into the cache whether or not useCache is on
HitsCacheAlways(useCache, name) == getCachedEnsAddress(name) # ""

\* if (useCache) { const cachedAddress = getCachedEnsAddress(...);
\*                 if (cachedAddress) ... }
HitsCache(useCache, name) == useCache /\ getCachedEnsAddress(name) # ""

\* resolveEnsAddress(provider, domain, { fallbackToMainnet, useCache }) up to
\* its first await: normalize, return the cached address, or ask the
\* provider for its network
ResolveStart(s) ==
    /\ NoneSettled
    /\ FreeSlot(s)
    /\ started < MaxCalls
    /\ started' = started + 1
    /\ \E chain \in Chains, domain \in Domains, fb \in BOOLEAN, uc \in BOOLEAN :
        LET c0 == [IdleCall EXCEPT !.op = "resolve", !.chain = chain,
                                   !.fallbackToMainnet = fb, !.useCache = uc]
        IN  IF normalizeThrows(domain)
            THEN Rejected(s, c0, "DomainNotString", <<>>)
            ELSE LET n == normalizeEnsDomain(domain)
                     c == [c0 EXCEPT !.name = n,
                                     !.expect = IF uc THEN firstResolved[n] ELSE ""]
                 IN  IF HitsCache(uc, n)
                     THEN Returned(s, c, getCachedEnsAddress(n))
                     ELSE Await(s, c, "getNetwork", chain, "getNetwork")
    /\ UNCHANGED <<ensResolutionCache, naming, firstResolved, fetchVars, providerVars>>

\* const network = await provider.getNetwork(), outside any try; then
\* tryResolveOnNetwork(provider, normalizedDomain, chainId) up to its first
\* await
GetNetworkDone(s) ==
    /\ NoneSettled
    /\ calls[s].pc = "getNetwork"
    /\ calls[s].op = "resolve"
    /\ LET c == calls[s] IN
       \E ok \in BOOLEAN :
        IF ~ok
        THEN /\ Rejected(s, c, "NetworkError", <<>>)
             /\ UNCHANGED <<ensResolutionCache, firstResolved>>
        ELSE IF c.chain \in ENS_CONFIGS
        THEN /\ Await(s, c, "resolver", c.chain, "resolver")
             /\ UNCHANGED <<ensResolutionCache, firstResolved>>
        ELSE Failed(s, c, "NotSupported")
    /\ UNCHANGED <<naming, started, fetchVars, providerVars>>

\* const resolverAddress = await registryContract.resolver(node)
ResolverDone(s) ==
    /\ NoneSettled
    /\ calls[s].pc = "resolver"
    /\ LET c == calls[s]
           o == naming[AwaitedChain(c)][c.name]
       IN  IF o \in {"RegistryCallFailed", "NoResolver"}
           THEN Failed(s, c, o)
           ELSE /\ Await(s, c, "addr", AwaitedChain(c), "addr")
                /\ UNCHANGED <<ensResolutionCache, firstResolved>>
    /\ UNCHANGED <<naming, started, fetchVars, providerVars>>

\* const address = await resolverContract.addr(node)
AddrDone(s) ==
    /\ NoneSettled
    /\ calls[s].pc = "addr"
    /\ LET c == calls[s]
           o == naming[AwaitedChain(c)][c.name]
       IN  IF o \in {"ResolverCallFailed", "NoAddress"}
           THEN Failed(s, c, o)
           ELSE Resolved(s, c, o)
    /\ UNCHANGED <<naming, started, fetchVars, providerVars>>

\* CachedAddress finding no entry, whatever the cache holds
CachedAddressNone(address) == ""

\* const cachedAddress = getCachedEnsAddress(addressOrEns)
CachedAddress(address) == getCachedEnsAddress(address.chars)

\* getContractAddress(addressOrEns, provider) with the default options: the
\* argument itself when it is no ENS name, the cached address, a rejection
\* when there is no provider, or resolveEnsAddress(provider, addressOrEns,
\* {}) up to its first await
ContractAddressStart(s) ==
    /\ NoneSettled
    /\ FreeSlot(s)
    /\ started < MaxCalls
    /\ started' = started + 1
    /\ \E address \in ContractArguments, provider \in {NoProviderGiven} \cup Chains :
        LET c0 == [IdleCall EXCEPT !.op = "contract", !.chain = provider,
                                   !.argument = address]
        IN  IF ~isEnsAddress(address)
            THEN SetCall(s, [c0 EXCEPT !.pc = "returned", !.returnedArgument = TRUE])
            ELSE IF CachedAddress(address) # ""
            THEN Returned(s, c0, CachedAddress(address))
            ELSE IF provider = NoProviderGiven
            THEN Rejected(s, c0, "NoProvider", <<>>)
            ELSE LET n == normalizeEnsDomain(address)
                     c == [c0 EXCEPT !.op = "resolve", !.name = n,
                                     !.fallbackToMainnet = TRUE,
                                     !.useCache = TRUE,
                                     !.expect = firstResolved[n]]
                 IN  Await(s, c, "getNetwork", provider, "getNetwork")
    /\ UNCHANGED <<ensResolutionCache, naming, firstResolved, fetchVars, providerVars>>

\* the catch block of checkEnsExists: its console.warn reads
\* normalizedDomain, a const of the try block that is not in scope there, so
\* the catch block itself throws a ReferenceError
CatchExists(s, c, kind) ==
    Rejected(s, [c EXCEPT !.error = Err(kind, c.chain)], "ReferenceError", <<>>)

\* checkEnsExists(provider, domain) up to its first await
ExistsStart(s) ==
    /\ NoneSettled
    /\ FreeSlot(s)
    /\ started < MaxCalls
    /\ started' = started + 1
    /\ \E chain \in Chains, domain \in Domains :
        LET c0 == [IdleCall EXCEPT !.op = "exists", !.chain = chain] IN
        IF normalizeThrows(domain)
        THEN CatchExists(s, c0, "DomainNotString")
        ELSE Await(s, [c0 EXCEPT !.name = normalizeEnsDomain(domain)],
                   "getNetwork", chain, "getNetwork")
    /\ UNCHANGED <<ensResolutionCache, naming, firstResolved, fetchVars, providerVars>>

\* const network = await provider.getNetwork(); if (!ensConfig) return false
ExistsNetworkDone(s) ==
    /\ NoneSettled
    /\ calls[s].pc = "getNetwork"
    /\ calls[s].op = "exists"
    /\ LET c == calls[s] IN
       \E ok \in BOOLEAN :
        IF ~ok THEN CatchExists(s, c, "NetworkError")
        ELSE IF c.chain \notin ENS_CONFIGS THEN Returned(s, c, "false")
        ELSE Await(s, c, "owner", c.chain, "owner")
    /\ UNCHANGED <<ensResolutionCache, naming, started, firstResolved, fetchVars, providerVars>>

\* const owner = await registryContract.owner(node);
\* return owner !== ethers.ZeroAddress
OwnerDone(s) ==
    /\ NoneSettled
    /\ calls[s].pc = "owner"
    /\ LET c == calls[s] IN
       \E o \in OwnerReplies :
        IF o = "OwnerCallFailed" THEN CatchExists(s, c, o)
        ELSE Returned(s, c, IF o # "ZeroAddress" THEN "true" ELSE "false")
    /\ UNCHANGED <<ensResolutionCache, naming, started, firstResolved, fetchVars, providerVars>>

\* the caller of a settled call takes its outcome
TakeResult(s) ==
    /\ Settled(s)
    /\ SetCall(s, IdleCall)
    /\ UNCHANGED <<ensResolutionCache, naming, started, firstResolved, fetchVars, providerVars>>

NextResolve ==
    \/ \E s \in Slots : ResolveStart(s)
    \/ \E s \in Slots : GetNetworkDone(s)
    \/ \E s \in Slots : ResolverDone(s)
    \/ \E s \in Slots : AddrDone(s)
    \/ \E s \in Slots : ExistsStart(s)
    \/ \E s \in Slots : ExistsNetworkDone(s)
    \/ \E s \in Slots : OwnerDone(s)
    \/ \E s \in Slots : ContractAddressStart(s)
    \/ \E s \in Slots : TakeResult(s)

\* no request is running; the naming backend is any of NamingBackends
InitResolve ==
    /\ siteAddress = "0xSite"
    /\ inputPath = <<>>
    /\ headRequest = FALSE
    /\ datapoints = FALSE
    /\ maxRedirects = DefaultMaxRedirects
    /\ range = DefaultRange
    /\ store = FetchStore
    /\ pc = "ens"
    /\ currentPath = <<>>
    /\ head = defaultHead
    /\ redirectsLeft = 0
    /\ candidate = 1
    /\ locateResponse = HeadOnlyResponse(defaultHead)
    /\ via = "none"
    /\ dataPoints = <<>>
    /\ contents = <<>>
    /\ result = NoResult
    /\ error = NoError
    /\ headLog = <<>>
    /\ headFailed = FALSE
    /\ getLog = <<>>
    /\ getFailed = FALSE
    /\ reads = <<>>
    /\ ensResolutionCache = [n \in NormalizedDomains |-> ""]
    /\ naming \in NamingBackends
    /\ calls = [s \in Slots |-> IdleCall]
    /\ started = 0
    /\ firstResolved = [n \in NormalizedDomains |-> ""]
    /\ ProviderQuiet

SpecResolve == InitResolve /\ [][NextResolve]_vars

(***************************************************************************)
(* getProvider, as fetchWTTPResource calls it after the network parameter  *)
(* detection; up to MaxInFlight calls are in flight                        *)
(***************************************************************************)
ProviderSettled(s) == providerCalls[s].pc \in {"returned", "thrown"}

\* a settled promise is delivered to its awaiting caller (a microtask) before
\* any reply of an endpoint is handled or any other call is started
NoProviderSettled == \A s \in Slots : ~ProviderSettled(s)

\* a new call takes the first free slot
FreeProviderSlot(s) ==
    /\ providerCalls[s].pc = "idle"
    /\ \A t \in Slots : t < s => providerCalls[t].pc # "idle"

\* getCachedProvider finding nothing, whatever the cache holds
getCachedProviderNever(key) == NoProvider

\* getCachedProvider(networkKey): providerCache.get(networkKey)
getCachedProvider(key) == providerCache[key]

\* setCachedProvider(networkKey, provider): the cache after
\* providerCache.set(networkKey, provider)
setCachedProvider(key, provider) == [providerCache EXCEPT ![key] = provider]

\* the call of slot s becomes c
SetProviderCall(s, c) == providerCalls' = [providerCalls EXCEPT ![s] = c]

\* provider = new JsonRpcProvider(url); setCachedProvider(networkKey,
\* provider); then the call awaits provider.getNetwork()
Construct(s, c, url) ==
    LET provider == JsonRpcProvider(Len(constructed) + 1, url) IN
    /\ constructed' = Append(constructed, c.key)
    /\ providerCache' = setCachedProvider(c.key, provider)
    /\ SetProviderCall(s, [c EXCEPT !.pc = "getNetwork", !.provider = provider])

\* getProvider returns provider without a further step
ReturnsProvider(s, c, provider) ==
    /\ SetProviderCall(s, [c EXCEPT !.pc = "returned", !.provider = provider])
    /\ UNCHANGED <<providerCache, constructed>>

\* the network parameter detection of fetchWTTPResource and getProvider up
\* to its first await
ProviderStart(s) ==
    /\ providerStarted < MaxCalls
    /\ NoProviderSettled
    /\ FreeProviderSlot(s)
    /\ providerStarted' = providerStarted + 1
    /\ \E selector \in Selectors, custom \in BOOLEAN :
        LET network == resolvedNetwork(selector)
            c == [IdleProviderCall EXCEPT !.selector = selector,
                                          !.custom = custom,
                                          !.key = networkKey(network)]
            cachedProvider == getCachedProvider(c.key)
            networkConfig == IF Truthy(network) THEN Lookup(network.text)
                             ELSE Lookup(PolygonName)
        IN  IF custom THEN ReturnsProvider(s, c, CustomProvider)
            ELSE IF cachedProvider # NoProvider
            THEN ReturnsProvider(s, c, cachedProvider)
            ELSE IF IsUrl(network) THEN Construct(s, c, network.text)
            ELSE IF ~networkConfig.truthy
            THEN /\ SetProviderCall(s, [c EXCEPT !.pc = "thrown",
                                                 !.error = UnsupportedNetwork(network)])
                 /\ UNCHANGED <<providerCache, constructed>>
            ELSE Construct(s, c, networkConfig.rpcUrl)
    /\ UNCHANGED <<networkInfoCache, fetchVars, ensVars>>

\* try { networkInfo = await provider.getNetwork();
\*       setCachedNetworkInfo(provider, networkInfo) } catch { warn }
\* return provider
ProviderNetworkDone(s) ==
    LET c == providerCalls[s] IN
    /\ c.pc = "getNetwork"
    /\ NoProviderSettled
    /\ \E ok \in BOOLEAN :
         networkInfoCache' = IF ok THEN networkInfoCache \cup {ChainIdAt(c.provider.url)}
                             ELSE networkInfoCache
    /\ SetProviderCall(s, [c EXCEPT !.pc = "returned"])
    /\ UNCHANGED <<providerCache, providerStarted, constructed, fetchVars, ensVars>>

\* the caller takes the provider, or the rejection
TakeProvider(s) ==
    /\ ProviderSettled(s)
    /\ SetProviderCall(s, IdleProviderCall)
    /\ UNCHANGED <<providerCache, networkInfoCache, providerStarted, constructed,
                   fetchVars, ensVars>>

NextProvider ==
    \/ \E s \in Slots : ProviderStart(s)
    \/ \E s \in Slots : ProviderNetworkDone(s)
    \/ \E s \in Slots : TakeProvider(s)

\* no request is running and no endpoint has been asked for
InitProvider ==
    /\ siteAddress = "0xSite"
    /\ inputPath = <<>>
    /\ headRequest = FALSE
    /\ datapoints = FALSE
    /\ maxRedirects = DefaultMaxRedirects
    /\ range = DefaultRange
    /\ store = FetchStore
    /\ pc = "provider"
    /\ currentPath = <<>>
    /\ head = defaultHead
    /\ redirectsLeft = 0
    /\ candidate = 1
    /\ locateResponse = HeadOnlyResponse(defaultHead)
    /\ via = "none"
    /\ dataPoints = <<>>
    /\ contents = <<>>
    /\ result = NoResult
    /\ error = NoError
    /\ headLog = <<>>
    /\ headFailed = FALSE
    /\ getLog = <<>>
    /\ getFailed = FALSE
    /\ reads = <<>>
    /\ EnsQuiet
    /\ ProviderQuiet

SpecProvider == InitProvider /\ [][NextProvider]_vars

(***************************************************************************)
(* normalizePath and resolveRedirectPath on their own: any short string    *)
(* over "/", "." and a letter, and the strings of the documented examples  *)
(***************************************************************************)
\* the strings of length n over "/", "." and "a"
ShortStrings == UNION {[1..n -> {"/", ".", "a"}] : n \in 0..MaxPathLen}

\* "/a/b/c", "/a/b/", "/x": current paths of the documented examples
ExamplePaths ==
    { <<"/", "a", "/", "b", "/", "c">>,
      <<"/", "a", "/", "b", "/">>,
      <<"/", "x">> }

\* "../d", "./d", "/y/z": locations of the documented examples;
\* "wttp://s/a" and "wttp://s:1/a": full site references without and with
\* a chain segment
ExampleLocations ==
    { <<".", ".", "/", "d">>,
      <<".", "/", "d">>,
      <<"/", "y", "/", "z">>,
      WttpScheme \o <<"s", "/", "a">>,
      WttpScheme \o <<"s", ":", "1", "/", "a">> }

\* "../../a": a relative path that climbs twice
ClimbingPaths == { <<".", ".", "/", ".", ".", "/", "a">> }

\* no request is running: inputPath is the first argument of the function
\* called (path, or currentPath), head.location the location argument
InitPaths ==
    /\ siteAddress = "0xSite"
    /\ inputPath \in ShortStrings \cup ExamplePaths \cup ClimbingPaths
    /\ headRequest = FALSE
    /\ datapoints = FALSE
    /\ maxRedirects = DefaultMaxRedirects
    /\ range = DefaultRange
    /\ store = FetchStore
    /\ pc = "paths"
    /\ currentPath = <<>>
    /\ \E location \in ShortStrings \cup ExampleLocations :
         head = [status |-> 301, location |-> location]
    /\ redirectsLeft = 0
    /\ candidate = 1
    /\ locateResponse = HeadOnlyResponse(defaultHead)
    /\ via = "none"
    /\ dataPoints = <<>>
    /\ contents = <<>>
    /\ result = NoResult
    /\ error = NoError
    /\ headLog = <<>>
    /\ headFailed = FALSE
    /\ getLog = <<>>
    /\ getFailed = FALSE
    /\ reads = <<>>
    /\ EnsQuiet
    /\ ProviderQuiet

\* normalizePath(path)
CallNormalizePath ==
    /\ pc = "paths"
    /\ currentPath' = normalizePath(inputPath)
    /\ pc' = "normalized"
    /\ UNCHANGED <<config, ensVars, providerVars, head, redirectsLeft, candidate, locateResponse,
                   via, dataPoints, contents, result, error, headLog, headFailed,
                   getLog, getFailed, reads>>

\* const resolved = resolveRedirectPath(currentPath, nextLocation)
CallResolveRedirectPath ==
    /\ pc = "paths"
    /\ currentPath' = resolveRedirectPath(inputPath, head.location)
    /\ pc' = "resolved"
    /\ UNCHANGED <<config, ensVars, providerVars, head, redirectsLeft, candidate, locateResponse,
                   via, dataPoints, contents, result, error, headLog, headFailed,
                   getLog, getFailed, reads>>

NextPaths ==
    \/ CallNormalizePath
    \/ CallResolveRedirectPath

SpecPaths == InitPaths /\ [][NextPaths]_vars

(***************************************************************************)
(* Properties                                                              *)
(***************************************************************************)
Docs == <<"/", "d", "o", "c", "s", "/">>
DocsIndexHtml == Docs \o fallbackPaths[1]
ATxt == <<"/", "a", ".", "t", "x", "t">>
B == <<"/", "b">>

\* the stored bytes of the chunks points, concatenated in order
RECURSIVE StoredBytes(_)
StoredBytes(points) ==
    IF points = <<>> THEN <<>>
    ELSE store[Head(points)] \o StoredBytes(Tail(points))

\* the call callGet(currentPath, range.start, range.end)
RequestedGet == [path |-> currentPath, start |-> range.start, end |-> range.end]

\* the result { response: { head, no resource }, content: undefined }
HeadOnlyResult(h) ==
    [response |-> HeadOnlyResponse(h), hasContent |-> FALSE, content |-> <<>>]

\* the redirect loop of a GET-mode request has been left
LoopLeft == ~headRequest /\ headLog # <<>> /\ pc # "loop"

\* the loop was left because the budget ran out: the last HEAD still redirects
Overflow ==
    /\ LoopLeft
    /\ redirectsLeft = 0
    /\ head.status \in RedirectCodes
    /\ head.location # <<>>

\* C1: every iteration of the redirect loop issues one HEAD and starts with
\* as many HEADs issued as redirects followed, at most maxRedirects; a
\* followed redirect takes one from a positive budget; a loop left while the
\* HEAD still redirects (any chain or cycle) has followed exactly maxRedirects
\* redirects with maxRedirects + 1 HEADs.
C1_RedirectLoopBounded ==
    [][pc = "loop" =>
         /\ Len(headLog) = maxRedirects - redirectsLeft
         /\ Len(headLog) <= maxRedirects
         /\ Len(headLog') = Len(headLog) + 1
         /\ (pc' = "loop" => redirectsLeft > 0 /\ redirectsLeft' = redirectsLeft - 1)
         /\ (pc' # "loop" /\ head'.status \in RedirectCodes /\ head'.location # <<>>
               => redirectsLeft' = 0 /\ Len(headLog') = maxRedirects + 1)]_vars

\* the cycle /a.txt -> /b -> /a.txt under maxRedirects = 5: the loop is left
\* after 5 hops and 6 HEADs, the last one still redirecting
C1_Witness ==
    /\ maxRedirects = 5
    /\ pc = "probe"
    /\ headLog = <<ATxt, B, ATxt, B, ATxt, B>>
    /\ redirectsLeft = 0
    /\ head.status \in RedirectCodes
    /\ head.location = ATxt

C3_Case ==
    /\ pc = "done"
    /\ ~headRequest
    /\ ~datapoints
    /\ inputPath = Docs
    /\ headLog = <<Docs, DocsIndexHtml>>
    /\ head.status = 200
    /\ getLog = <<[path |-> DocsIndexHtml, start |-> range.start, end |-> range.end]>>
    /\ ~getFailed
    /\ locateResponse.head.status = 200
    /\ Len(locateResponse.dataPoints) > 0

\* C3: in that case the result has status 200, the chunk identifiers of
\* /docs/index.html and the concatenated stored bytes of those chunks.
C3_IndexFallbackContent ==
    C3_Case =>
        /\ result.response.head.status = 200
        /\ result.response.dataPoints = locateResponse.dataPoints
        /\ result.hasContent
        /\ result.content = StoredBytes(locateResponse.dataPoints)

\* C4: a HEAD that threw leaves head = defaultHead (status 404) and never
\* makes the request throw; head-only, the result is that 404 head with no
\* chunks and no content; otherwise the request goes on as for a 404: the four
\* index candidates are probed when the path is directory-like, then the
\* direct GET is made at the current path with the requested range.
C4_HeadFailureIsNotFound ==
    headFailed =>
        /\ head = defaultHead
        /\ pc # "thrown"
        /\ headRequest =>
             /\ pc = "done"
             /\ result = HeadOnlyResult(defaultHead)
             /\ getLog = <<>>
        /\ ~headRequest =>
             /\ pc \in {"fallback", "probe", "dps", "read", "done"}
             /\ (pc = "fallback" => looksLikeDirectory(currentPath))
             /\ (pc # "fallback" =>
                    Len(headLog) = (maxRedirects - redirectsLeft) + 1
                        + (IF looksLikeDirectory(currentPath)
                           THEN Len(fallbackPaths) ELSE 0))
             /\ (pc \in {"dps", "read", "done"} => getLog = <<RequestedGet>>)

C4_Witness ==
    /\ headFailed
    /\ ~headRequest
    /\ pc = "done"
    /\ looksLikeDirectory(currentPath)
    /\ getLog = <<RequestedGet>>

\* the GET after a 200/206 HEAD failed and so did its retry
RetryFailed ==
    /\ IsOk(head.status)
    /\ Len(getLog) = 2
    /\ getFailed
    /\ locateResponse.totalChunks = 0

ChunkReadFailed ==
    /\ reads # <<>>
    /\ pc \in {"done", "thrown"}
    /\ ~(pc = "done" /\ result.hasContent)

\* C6: a chunk read that fails makes the request fail with the chunk-read
\* error, on both call sites of readDataPointsContent; no result is returned.
C6_ChunkReadFailureIsFatal ==
    ChunkReadFailed => (pc = "thrown" /\ error.kind = "ReadFailed")

C8_ReadFailureAborts ==
    (pc = "thrown" /\ error.kind = "ReadFailed") =>
        /\ error.index \in 1..Len(dataPoints)
        /\ error.index = Len(contents) + 1
        /\ error.total = Len(dataPoints)
        /\ reads = SubSeq(dataPoints, 1, error.index)
        /\ result = NoResult

C8_Witness ==
    /\ pc = "thrown"
    /\ error = [kind |-> "ReadFailed", index |-> 1, total |-> 2]
    /\ reads = <<dataPoints[1]>>

\* C9: the buffer readDataPointsContent returns is the concatenation of the
\* stored bytes of the chunks, in input order.
C9_ReassembleIsConcatenation ==
    (pc = "done" /\ result.hasContent) =>
        result.content = StoredBytes(dataPoints)

\* C10: a head-only request reads no chunk and issues no GET; its result has
\* no content and an empty chunk list with totalChunks 0.
C10_HeadOnlyReadsNothing ==
    headRequest =>
        /\ reads = <<>>
        /\ getLog = <<>>
        /\ pc \in {"start", "head", "done", "thrown"}
        /\ pc = "done" =>
             /\ ~result.hasContent
             /\ result.response.dataPoints = <<>>
             /\ result.response.totalChunks = 0

C10_Witness ==
    /\ headRequest
    /\ pc = "done"
    /\ Len(headLog) = 1
    /\ result.response.head.status = 200

\* C11: a returned result carries content only when its status is 200/206
\* and neither options.headRequest nor options.datapoints is set; with
\* options.datapoints set no chunk is read from storage, on the direct GET
\* path as after a 200/206 HEAD.
C11_ContentOnlyWhenWanted ==
    /\ (pc = "done" /\ result.hasContent) =>
         /\ IsOk(result.response.head.status)
         /\ ~headRequest
         /\ ~datapoints
         /\ reads # <<>>
    /\ datapoints => (reads = <<>> /\ pc \notin {"dps", "read"})

\* chunk identifiers only, answered 200/206 by the direct GET after a HEAD
\* that was not 200/206: the identifiers are returned, nothing is read
C11_Witness ==
    /\ pc = "done"
    /\ datapoints
    /\ ~IsOk(head.status)
    /\ IsOk(result.response.head.status)
    /\ Len(result.response.dataPoints) = 2
    /\ ~result.hasContent
    /\ reads = <<>>

\* C12: the repair step is entered at most once, after the GET (or its
\* retry) that followed a 200/206 HEAD answered fewer chunk identifiers than
\* its totalChunks > 0; it issues one GET for the range (0, totalChunks - 1);
\* locateResponse is replaced only by an answer with strictly more chunk
\* identifiers and is kept when the repair GET throws; the step never throws;
\* the response kept goes unchanged through the content load into the result
\* (only a response without any chunk identifier goes on to first-chunk
\* paging).
C12_RepairOnceAdoptIfMore ==
    [][/\ pc = "repair" =>
            /\ IsOk(head.status)
            /\ Len(getLog) \in {1, 2}
            /\ locateResponse.totalChunks > 0
            /\ Len(locateResponse.dataPoints) < locateResponse.totalChunks
            /\ getLog' = Append(getLog, [path |-> currentPath, start |-> 0,
                                         end |-> locateResponse.totalChunks - 1])
            /\ pc' \in {"firstChunk", "dps", "done"}
            /\ \/ locateResponse' = locateResponse
               \/ /\ ~getFailed'
                  /\ Len(locateResponse'.dataPoints) > Len(locateResponse.dataPoints)
            /\ (pc' = "firstChunk") = (IsOk(locateResponse'.head.status)
                                         /\ Len(locateResponse'.dataPoints) = 0)
            /\ (pc' = "done" => result'.response = locateResponse')
       /\ (pc \in {"locate", "retry"} /\ pc' \in {"firstChunk", "dps"}) =>
            ~(/\ locateResponse'.totalChunks > 0
              /\ Len(locateResponse'.dataPoints) < locateResponse'.totalChunks)
       /\ (pc \in {"dps", "read"} /\ via = "normal") =>
            /\ locateResponse' = locateResponse
            /\ (pc' = "done" => result'.response = locateResponse)]_vars

\* 2 of 3: the GET answered 2 chunk identifiers of totalChunks = 3, the
\* repair GET for (0, 2) did not answer more, and the 2-chunk response is the
\* result
C12_Witness ==
    /\ pc = "done"
    /\ IsOk(head.status)
    /\ getLog = <<RequestedGet, [path |-> currentPath, start |-> 0, end |-> 2]>>
    /\ ~getFailed
    /\ Len(locateResponse.dataPoints) = 2
    /\ locateResponse.totalChunks = 3
    /\ result.response = locateResponse

\* the chunk identifiers of the requested range (chunk indices are zero-based)
RequestedChunks == SubSeq(ResourceChunks, range.start + 1, range.end + 1)

\* the first GET after a 200/206 HEAD answered 200/206 with exactly the chunk
\* identifiers of the sub-range asked for
AnsweredRequestedRange ==
    /\ range # DefaultRange
    /\ ~headRequest
    /\ via # "probe"
    /\ IsOk(head.status)
    /\ getLog[1] = RequestedGet
    /\ IsOk(locateResponse.head.status)
    /\ locateResponse.dataPoints = RequestedChunks

\* C13: when the GET for an explicit sub-range answered exactly the chunk
\* identifiers of that range, they stay the chunk identifiers of the
\* response up to the result, and the content is the stored bytes of those
\* chunks only.
C13_SubRangeIsReturned ==
    [][(/\ \/ pc = "repair" /\ Len(getLog) = 1
           \/ pc \in {"dps", "read"}
        /\ AnsweredRequestedRange) =>
            /\ locateResponse'.dataPoints = RequestedChunks
            /\ (pc' = "done" /\ result'.hasContent) =>
                 /\ result'.response.dataPoints = RequestedChunks
                 /\ result'.content = StoredBytes(RequestedChunks)]_vars

\* C14 (as claimed): a returned result with status 200/206 of a request with
\* the default range has as many chunk identifiers as its totalChunks.
C14_CompleteWhenOk ==
    (pc = "done" /\ range = DefaultRange /\ IsOk(result.response.head.status)) =>
        Len(result.response.dataPoints) = result.response.totalChunks

\* a GET for an explicit chunk range was issued: the repair GET
\* (0, totalChunks - 1) or, after it, the first-chunk GET (0, 0)
RepairIssued == \E i \in DOMAIN getLog : getLog[i].start = 0 /\ getLog[i].end >= 0

\* C14 (amended): a returned result with status 200/206 of a request with the
\* default range has fewer chunk identifiers than its totalChunks only when
\* it is the answer of the direct GET after a HEAD that was not 200/206
\* (returned as the backend gave it, without repair), or, after a 200/206
\* HEAD, when the repair GET for (0, totalChunks - 1) has been issued and
\* brought no complete list.
C14_UndercountOnlyAfterRepair ==
    (/\ pc = "done"
     /\ range = DefaultRange
     /\ IsOk(result.response.head.status)
     /\ Len(result.response.dataPoints) < result.response.totalChunks) =>
        \/ /\ ~IsOk(head.status)
           /\ getLog = <<RequestedGet>>
           /\ result.response = locateResponse
        \/ /\ IsOk(head.status)
           /\ RepairIssued
           /\ Len(getLog) >= 2
           /\ result.response = locateResponse

C14_Witness ==
    /\ pc = "done"
    /\ range = DefaultRange
    /\ IsOk(head.status)
    /\ result.response.head.status = 200
    /\ Len(result.response.dataPoints) = 1
    /\ result.response.totalChunks = 2
    /\ getLog = <<RequestedGet, [path |-> currentPath, start |-> 0, end |-> 1]>>

\* the elements of a sequence
Range(seq) == {seq[i] : i \in DOMAIN seq}

\* C15: a resolve with useCache on, started after a resolve with useCache on
\* of the same normalized name has succeeded, returns the identifier that
\* resolve returned, at once and without any backend query.
C15_CacheHitIsStable ==
    \A s \in Slots :
        LET c == calls[s] IN
        (c.op = "resolve" /\ c.useCache /\ c.expect # "") =>
            /\ c.pc = "returned"
            /\ c.queryLog = <<>>
            /\ c.value = c.expect

\* the address the naming backend binds to a name on a chain, "" if none
Bound(chain, name) ==
    IF chain \in ENS_CONFIGS /\ naming[chain][name] \in Addresses
    THEN naming[chain][name]
    ELSE ""

\* what the naming backend answers a resolve on a chain, by itself: the
\* binding on that chain or, failing that and with the fallback enabled, the
\* binding on mainnet
BackendAnswer(chain, name, fallbackToMainnet) ==
    IF Bound(chain, name) # "" THEN Bound(chain, name)
    ELSE IF fallbackToMainnet /\ chain # Mainnet THEN Bound(Mainnet, name)
    ELSE ""

\* C16: with the backend unchanged, the identifier a resolve returns for a
\* name on a network is what the backend answers for that name and network,
\* whatever was resolved before.
C16_ResolutionIndependentOfHistory ==
    \A s \in Slots :
        LET c == calls[s] IN
        (c.op = "resolve" /\ c.pc = "returned") =>
            c.value = BackendAnswer(c.chain, c.name, c.fallbackToMainnet)

\* C17: the step in which a resolve fails leaves the cache as it is, and so
\* does every other step except the one in which a resolve with useCache on
\* gets an address from the backend, which sets the entry of its name only;
\* a resolve of a name that has no cache entry asks the backend (first the
\* provider for its network).
C17_FailureLeavesCache ==
    [][\A s \in Slots :
        /\ (calls'[s].pc = "thrown" /\ calls[s].pc # "thrown") =>
             ensResolutionCache' = ensResolutionCache
        /\ (calls'[s] # calls[s] /\ ensResolutionCache' # ensResolutionCache) =>
             /\ calls[s].pc = "addr"
             /\ calls'[s].pc = "returned"
             /\ calls'[s].useCache
             /\ calls'[s].value \in Addresses
             /\ ensResolutionCache' =
                  [ensResolutionCache EXCEPT ![calls'[s].name] = calls'[s].value]
        /\ (/\ calls[s].pc = "idle"
            /\ calls'[s].op = "resolve"
            /\ calls'[s].thrown # "DomainNotString"
            /\ ensResolutionCache[calls'[s].name] = "") =>
             /\ calls'[s].pc = "getNetwork"
             /\ calls'[s].queryLog = <<Query(calls'[s].chain, "getNetwork")>>]_vars

\* a resolve with useCache on has failed on Sepolia and on the mainnet
\* fallback after another call was started, and the cache has no entry
C17_Witness ==
    \E s \in Slots :
        /\ calls[s].pc = "thrown"
        /\ calls[s].thrown = "EnsResolutionFailed"
        /\ calls[s].useCache
        /\ calls[s].chain = Sepolia
        /\ calls[s].fallbackError # NoErr
        /\ started >= 2
        /\ \A n \in NormalizedDomains : ensResolutionCache[n] = ""

\* C18: the lookup on the requested chain fails when the chain has no ENS
\* configuration, the registry or resolver call fails, no resolver is set or
\* no address is bound; then, with fallbackToMainnet on and the chain not
\* mainnet, the same name is looked up on mainnet, and when that succeeds the
\* mainnet binding is returned and, with useCache on, cached; with
\* fallbackToMainnet off or on mainnet the resolve fails at once and no other
\* chain is ever queried.
C18_FallbackToMainnet ==
    \A s \in Slots :
        LET c == calls[s] IN
        c.op = "resolve" =>
            /\ c.error # NoErr =>
                 /\ c.error.kind \in LookupFailures \cup {"NotSupported"}
                 /\ c.error.on = c.chain
                 /\ (c.error.kind = "NotSupported") = (c.chain \notin ENS_CONFIGS)
                 /\ (c.error.kind \in LookupFailures) =>
                        naming[c.chain][c.name] = c.error.kind
            /\ (c.error # NoErr /\ c.fallbackToMainnet /\ c.chain # Mainnet) =>
                 /\ Query(Mainnet, "resolver") \in Range(c.queryLog)
                 /\ c.pc = "returned" =>
                      /\ c.value = Bound(Mainnet, c.name)
                      /\ c.value # ""
                      /\ c.useCache => ensResolutionCache[c.name] = c.value
                 /\ Bound(Mainnet, c.name) # "" => c.pc # "thrown"
            /\ (c.error # NoErr /\ ~(c.fallbackToMainnet /\ c.chain # Mainnet)) =>
                 c.pc = "thrown"
            /\ (~c.fallbackToMainnet \/ c.chain = Mainnet) =>
                 \A i \in DOMAIN c.queryLog : c.queryLog[i].on = c.chain

\* a.eth has no resolver on Sepolia; the fallback returned its mainnet
\* binding, which is now cached
C18_Witness ==
    \E s \in Slots :
        /\ calls[s].op = "resolve"
        /\ calls[s].pc = "returned"
        /\ calls[s].chain = Sepolia
        /\ calls[s].name = AEth
        /\ calls[s].error = Err("NoResolver", Sepolia)
        /\ calls[s].value = "0xM"
        /\ ensResolutionCache[AEth] = "0xM"

\* C19 (as claimed): the error of a resolve that failed on the requested
\* chain and on the mainnet fallback carries both errors.
C19_FinalErrorCarriesBoth ==
    \A s \in Slots :
        LET c == calls[s] IN
        (c.pc = "thrown" /\ c.thrown = "EnsResolutionFailed" /\ c.fallbackError # NoErr) =>
            {c.error, c.fallbackError} \subseteq Range(c.cause)

\* C19 (amended): the error of a resolve whose lookups failed carries the
\* error of the requested chain only; the error of the mainnet fallback, when
\* there was one, is not part of it.
C19_FinalErrorCarriesOriginal ==
    \A s \in Slots :
        LET c == calls[s] IN
        (c.pc = "thrown" /\ c.thrown = "EnsResolutionFailed") =>
            /\ c.error # NoErr
            /\ c.error.on = c.chain
            /\ c.cause = <<c.error>>
            /\ c.fallbackError # NoErr =>
                 /\ c.fallbackError.on = Mainnet
                 /\ c.chain # Mainnet
                 /\ c.fallbackError \notin Range(c.cause)

C19_Witness ==
    \E s \in Slots :
        /\ calls[s].pc = "thrown"
        /\ calls[s].thrown = "EnsResolutionFailed"
        /\ calls[s].error = Err("NotSupported", Polygon)
        /\ calls[s].fallbackError = Err("NoAddress", Mainnet)
        /\ calls[s].cause = <<Err("NotSupported", Polygon)>>

\* C20: checkEnsExists never throws; when a step of it fails it returns false.
C20_ExistsNeverThrows ==
    \A s \in Slots :
        calls[s].op = "exists" =>
            /\ calls[s].pc # "thrown"
            /\ (calls[s].pc = "returned" /\ calls[s].value = "true") =>
                  calls[s].queryLog[Len(calls[s].queryLog)] = Query(calls[s].chain, "owner")

\* C25: normalizing a normalized path changes nothing.
C25_NormalizeIdempotent ==
    pc = "normalized" =>
        /\ currentPath = normalizePath(inputPath)
        /\ normalizePath(currentPath) = currentPath

\* "./a" was normalized to "/a"
C25_Witness ==
    /\ pc = "normalized"
    /\ inputPath = <<".", "/", "a">>
    /\ currentPath = <<"/", "a">>

\* the text of p up to and including its last "/" ("" when it has none)
DirectoryOf(p) ==
    LET ks == {k \in 1..Len(p) : p[k] = "/"} IN
    IF ks = {} THEN <<>>
    ELSE SubSeq(p, 1, CHOOSE k \in ks : \A j \in ks : j <= k)

\* the segment stack after the first i of the segments segs: "" and "." are
\* dropped, ".." pops the stack (nothing when it is empty), any other
\* segment is pushed
StackAfter(segs) ==
    LET f[i \in 0..Len(segs)] ==
            IF i = 0 THEN <<>>
            ELSE IF segs[i] \in {<<>>, <<".">>} THEN f[i - 1]
            ELSE IF segs[i] = <<".", ".">>
            THEN SubSeq(f[i - 1], 1, Len(f[i - 1]) - 1)
            ELSE Append(f[i - 1], segs[i])
    IN  f[Len(segs)]

\* "/" followed by the segments joined by "/"
RECURSIVE Rooted(_)
Rooted(segs) ==
    IF segs = <<>> THEN <<"/">>
    ELSE IF Len(segs) = 1 THEN <<"/">> \o segs[1]
    ELSE <<"/">> \o segs[1] \o Rooted(Tail(segs))

\* the location is neither absolute nor a full site reference
IsRelative(location) ==
    ~StartsWith(location, <<"/">>) /\ ~StartsWith(location, WttpScheme)

\* C26: for a relative location the result is the segment-stack resolution
\* of the directory of the current path followed by the location; an
\* absolute location is the result; ("/a/b/c", "../d") gives "/a/d",
\* ("/a/b/", "./d") gives "/a/b/d" and ("/x", "/y/z") gives "/y/z".
C26_RelativeRedirectResolution ==
    pc = "resolved" =>
        /\ IsRelative(head.location) =>
             currentPath =
                Rooted(StackAfter(Split(DirectoryOf(inputPath) \o head.location, "/")))
        /\ StartsWith(head.location, <<"/">>) => currentPath = head.location
        /\ (inputPath = <<"/", "a", "/", "b", "/", "c">>
              /\ head.location = <<".", ".", "/", "d">>) =>
             currentPath = <<"/", "a", "/", "d">>
        /\ (inputPath = <<"/", "a", "/", "b", "/">>
              /\ head.location = <<".", "/", "d">>) =>
             currentPath = <<"/", "a", "/", "b", "/", "d">>
        /\ (inputPath = <<"/", "x">> /\ head.location = <<"/", "y", "/", "z">>) =>
             currentPath = <<"/", "y", "/", "z">>

\* ("/a/b/c", "../d") was resolved to "/a/d"
C26_Witness ==
    /\ pc = "resolved"
    /\ inputPath = <<"/", "a", "/", "b", "/", "c">>
    /\ head.location = <<".", ".", "/", "d">>
    /\ currentPath = <<"/", "a", "/", "d">>

\* C27: for the full site references wttp://s/a and wttp://s:1/a the result
\* is the path part "/a", without the site and without the chain id.
C27_SiteReferenceGivesPath ==
    (pc = "resolved" /\ StartsWith(head.location, WttpScheme)
       /\ EndsWith(head.location, <<"/", "a">>)) =>
        currentPath = <<"/", "a">>

\* wttp://s:1/a was resolved to "/1/a", the chain id being taken as the
\* first segment of the path
C27_ChainIdInPath ==
    /\ pc = "resolved"
    /\ head.location = WttpScheme \o <<"s", ":", "1", "/", "a">>
    /\ currentPath = <<"/", "1", "/", "a">>

\* wttp://s/a was resolved to "//s/a", the site still in it
C27_SiteInPath ==
    /\ pc = "resolved"
    /\ head.location = WttpScheme \o <<"s", "/", "a">>
    /\ currentPath = <<"/", "/", "s", "/", "a">>

\* C28: for a relative location the result is "/" followed by segments
\* joined by single "/", none of them empty, "." or "..".
C28_ResultStaysUnderRoot ==
    (pc = "resolved" /\ IsRelative(head.location)) =>
        /\ StartsWith(currentPath, <<"/">>)
        /\ currentPath # <<"/">> =>
             \A seg \in Range(Split(Tail(currentPath), "/")) :
                 seg \notin {<<>>, <<".">>, <<".", ".">>}

\* "../" against "/a" would climb above the root and ends at "/"
C28_Witness ==
    /\ pc = "resolved"
    /\ inputPath = <<"/", "a">>
    /\ head.location = <<".", ".", "/">>
    /\ currentPath = <<"/">>

\* the index documents in the order they are tried
IndexDocuments ==
    << <<"i", "n", "d", "e", "x", ".", "h", "t", "m", "l">>,
       <<"i", "n", "d", "e", "x", ".", "h", "t", "m">>,
       <<"i", "n", "d", "e", "x", ".", "m", "d">>,
       <<"i", "n", "d", "e", "x", ".", "t", "x", "t">> >>

\* the index document doc under the path p
Under(p, doc) ==
    IF p[Len(p)] = "/" THEN p \o doc ELSE p \o <<"/">> \o doc

\* C29: index documents are probed only after the redirect loop was left
\* with a 404 head at a path that ends with "/" or has no "."; the k-th probe
\* is a HEAD at the k-th of index.html, index.htm, index.md, index.txt under
\* the current path; a probe answered 200/206 becomes the head and the path
\* and ends the probing; any other probe changes neither and the next
\* document (or, after the last, the direct GET) follows.
C29_IndexProbing ==
    [][ /\ (pc' = "fallback" /\ pc # "fallback") =>
              /\ pc = "loop"
              /\ head'.status = 404
              /\ currentPath'[Len(currentPath')] = "/"
                   \/ \A k \in 1..Len(currentPath') : currentPath'[k] # "."
              /\ candidate' = 1
        /\ (headLog' # headLog /\ pc # "fallback") => pc \in {"head", "loop"}
        /\ pc = "fallback" =>
              /\ headLog' = Append(headLog, Under(currentPath, IndexDocuments[candidate]))
              /\ \/ /\ pc' = "locate"
                    /\ head'.status \in {200, 206}
                    /\ currentPath' = Under(currentPath, IndexDocuments[candidate])
                 \/ /\ pc' = IF candidate < 4 THEN "fallback" ELSE "probe"
                    /\ candidate' = IF candidate < 4 THEN candidate + 1 ELSE candidate
                    /\ head' = head
                    /\ currentPath' = currentPath
      ]_vars

\* /docs/ gave 404, /docs/index.html was skipped and /docs/index.htm adopted
C29_Witness ==
    /\ pc = "locate"
    /\ candidate = 2
    /\ headLog = << Docs, DocsIndexHtml, Under(Docs, IndexDocuments[2]) >>
    /\ currentPath = Under(Docs, IndexDocuments[2])
    /\ IsOk(head.status)

\* the path of the HEAD that ended the redirect loop: the path reached after
\* the last followed redirect
PathAfterRedirects == headLog[(maxRedirects - redirectsLeft) + 1]

\* C30: a followed redirect sets the current path to the resolution of the
\* location against the previous path (/a.txt with location "b" gives /b,
\* any other path with location "/a.txt" gives /a.txt), takes exactly one
\* from the budget and is followed by a HEAD at the new path; the index
\* probes and every GET use the path reached after the last followed
\* redirect (or the index document adopted under it).
C30_RedirectMovesTheRequest ==
    [][ /\ (pc = "loop" /\ pc' = "loop") =>
              /\ head'.status \in RedirectCodes
              /\ currentPath' = resolveRedirectPath(currentPath, head'.location)
              /\ currentPath' = IF currentPath = ATxt THEN B ELSE ATxt
              /\ redirectsLeft' = redirectsLeft - 1
        /\ pc = "loop" => headLog' = Append(headLog, currentPath)
        /\ (pc = "loop" /\ pc' # "loop") =>
              /\ currentPath' = currentPath
              /\ redirectsLeft' = redirectsLeft
        /\ pc = "fallback" =>
              /\ currentPath = PathAfterRedirects
              /\ headLog'[Len(headLog')] = Under(PathAfterRedirects, IndexDocuments[candidate])
        /\ getLog' # getLog =>
              /\ Len(getLog') = Len(getLog) + 1
              /\ getLog'[Len(getLog')].path = currentPath
              /\ currentPath \in {PathAfterRedirects}
                    \cup {Under(PathAfterRedirects, IndexDocuments[k]) : k \in 1..4}
      ]_vars

\* a.txt was requested, /a.txt redirected to /b, and the GET went to /b
C30_Witness ==
    /\ inputPath = <<"a", ".", "t", "x", "t">>
    /\ headLog = <<ATxt, B>>
    /\ redirectsLeft = maxRedirects - 1
    /\ getLog # <<>>
    /\ getLog[1].path = B

\* the call of slot s went through getProvider without a custom provider
Asked(s) == providerCalls[s].pc # "idle" /\ ~providerCalls[s].custom

\* C21: a call whose selector is a non-numeric string that is neither a key
\* of the network table nor an http(s) URL is rejected with the
\* unsupported-network error, which lists the four supported names, and
\* gets no endpoint.
C21_UnknownNameRejected ==
    \A s \in Slots :
        LET c == providerCalls[s] IN
        (/\ Asked(s)
         /\ c.selector.type = "string"
         /\ ~AllDigits(c.selector.text)
         /\ c.selector.text \notin {PolygonName, EthereumName, SepoliaName, LocalhostName}
         /\ ~StartsWith(c.selector.text, <<"h", "t", "t", "p", ":", "/", "/">>)
         /\ ~StartsWith(c.selector.text, <<"h", "t", "t", "p", "s", ":", "/", "/">>))
        => /\ c.pc = "thrown"
           /\ c.error.kind = "UnsupportedNetwork"
           /\ c.error.supported = <<PolygonName, EthereumName, SepoliaName, LocalhostName>>
           /\ c.provider = NoProvider

\* the selector "toString" got an endpoint, constructed with no URL
C21_PrototypeKeyServed ==
    \E s \in Slots :
        /\ Asked(s)
        /\ providerCalls[s].selector = Text(<<"t", "o", "S", "t", "r", "i", "n", "g">>)
        /\ providerCalls[s].pc = "returned"
        /\ providerCalls[s].provider.id > 0
        /\ providerCalls[s].provider.url = <<>>

\* the selector "" got the endpoint of polygon
C21_EmptyNameServed ==
    \E s \in Slots :
        /\ Asked(s)
        /\ providerCalls[s].selector = Text(<<>>)
        /\ providerCalls[s].pc = "returned"
        /\ providerCalls[s].provider.url = NETWORK_CONFIGS[PolygonName].rpcUrl

\* the name of no network is rejected, the message listing the four names
C21_UnknownNameThrown ==
    \E s \in Slots :
        /\ Asked(s)
        /\ providerCalls[s].selector = Text(UnknownName)
        /\ providerCalls[s].pc = "thrown"
        /\ providerCalls[s].error = UnsupportedNetwork(Text(UnknownName))

\* the chain id a selector gives, 0 when it gives none
ChainIdOf(selector) ==
    IF selector.type = "number" THEN selector.number
    ELSE IF selector.type = "string" /\ AllDigits(selector.text)
    THEN CHOOSE n \in {Polygon, Mainnet, Sepolia, Localhost, UnknownChain} :
            NumberToString(n) = selector.text
    ELSE 0

\* C22: a call whose selector is a chain id (number or numeric string) that
\* the chain-id table does not have is rejected with the unsupported-network
\* error and gets no endpoint.
C22_UnknownChainRejected ==
    \A s \in Slots :
        LET c == providerCalls[s] IN
        (Asked(s) /\ ChainIdOf(c.selector) = UnknownChain)
        => /\ c.pc = "thrown"
           /\ c.error.kind = "UnsupportedNetwork"
           /\ c.provider = NoProvider

\* the chain id 999 got the endpoint of polygon
C22_UnknownChainServedByPolygon ==
    \E s \in Slots :
        /\ Asked(s)
        /\ providerCalls[s].selector = Number(UnknownChain)
        /\ providerCalls[s].pc = "returned"
        /\ providerCalls[s].key = PolygonName
        /\ providerCalls[s].provider.url = NETWORK_CONFIGS[PolygonName].rpcUrl

\* C23: at most one endpoint object is constructed per key; every call
\* without a custom provider that was not rejected holds the endpoint object
\* cached under its key, also while the call that constructed it is still
\* awaiting getNetwork.
C23_OneEndpointPerKey ==
    /\ \A k \in ProviderKeys :
          Cardinality({i \in 1..Len(constructed) : constructed[i] = k}) <= 1
    /\ \A k \in ProviderKeys :
          providerCache[k] # NoProvider =>
             /\ providerCache[k].id \in 1..Len(constructed)
             /\ constructed[providerCache[k].id] = k
    /\ \A s \in Slots :
          (Asked(s) /\ providerCalls[s].pc # "thrown") =>
             /\ providerCalls[s].provider # NoProvider
             /\ providerCalls[s].provider = providerCache[providerCalls[s].key]

\* the first call for polygon still awaits getNetwork and a second call for
\* polygon has returned the endpoint the first one constructed
C23_Witness ==
    /\ providerCalls[1].pc = "getNetwork"
    /\ providerCalls[2].pc = "returned"
    /\ ~providerCalls[2].custom
    /\ providerCalls[1].key = PolygonName
    /\ providerCalls[2].key = PolygonName
    /\ providerCalls[2].provider = providerCalls[1].provider
    /\ constructed = <<PolygonName>>

\* the selector denotes the network name: the name itself, its chain id as
\* a number or as a numeric string, or (for polygon) no selector
Denotes(selector, name) ==
    \/ selector = Text(name)
    \/ selector = Number(NETWORK_CONFIGS[name].chainId)
    \/ selector = Text(NumberToString(NETWORK_CONFIGS[name].chainId))
    \/ name = PolygonName /\ selector = Absent

\* C24: every selector that denotes a network of the table has the name of
\* that network as its key, and its call holds the endpoint cached under
\* that name, which is the endpoint of the network's RPC URL.
C24_SameNetworkSameKey ==
    \A s \in Slots : \A name \in DOMAIN NETWORK_CONFIGS :
        (Asked(s) /\ Denotes(providerCalls[s].selector, name)) =>
            /\ providerCalls[s].key = name
            /\ providerCalls[s].pc # "thrown"
            /\ providerCalls[s].provider = providerCache[name]
            /\ providerCalls[s].provider.url = NETWORK_CONFIGS[name].rpcUrl

\* a call with the chain id 137 and a call with no selector hold the same
\* endpoint object, and a call with "1" holds the one of ethereum
C24_Witness ==
    /\ providerCalls[1].selector = Number(Polygon)
    /\ providerCalls[2].selector = Absent
    /\ Asked(1)
    /\ Asked(2)
    /\ providerCalls[1].provider = providerCalls[2].provider
    /\ providerCalls[1].provider.id > 0
    /\ providerCache[EthereumName] # NoProvider

\* the redirect loop and the index probing of a GET-mode request are over
\* and the head is still not 200/206
HeadStillNotOk ==
    /\ ~headRequest
    /\ headLog # <<>>
    /\ pc \notin {"loop", "fallback"}
    /\ ~IsOk(head.status)

\* the direct locate answered with status 200/206
DirectLocateOk == ~getFailed /\ IsOk(locateResponse.head.status)

\* C31: when the head is still not 200/206, exactly one locate is made, at
\* the current path with the requested range; a 200/206 answer is the
\* result, with content when it has chunk identifiers and content is
\* wanted; after any other answer or a failure the result is the HEAD's
\* head with no chunks, totalChunks 0 and no content.
C31_DirectLocateDecides ==
    /\ (HeadStillNotOk /\ pc = "probe") => getLog = <<>>
    /\ (HeadStillNotOk /\ pc # "probe") => getLog = <<RequestedGet>>
    /\ (HeadStillNotOk /\ pc \in {"done", "thrown"}) =>
          /\ pc = "done"
          /\ IF DirectLocateOk
             THEN /\ result.response = locateResponse
                  /\ result.hasContent = (Len(locateResponse.dataPoints) > 0 /\ ~datapoints)
             ELSE result = HeadOnlyResult(head)

\* the direct locate answered 200/206 with chunk identifiers, the content
\* load failed, and the request returned the HEAD's 404 head
C31_AnswerDropped ==
    /\ HeadStillNotOk
    /\ pc = "done"
    /\ DirectLocateOk
    /\ Len(locateResponse.dataPoints) > 0
    /\ result = HeadOnlyResult(head)

\* C32: once the repair step is over, a location with status 200/206,
\* totalChunks > 0 and no chunk identifier leads to one locate of the chunk
\* range [0, 0] at the current path, and no other location does; what that
\* locate answers becomes the location and (when the request returns) the
\* response of the result; when it fails the location stays, the request
\* returns it and does not throw; no locate follows.
C32_FirstChunkPaging ==
    [][ /\ (pc \in {"locate", "retry", "repair"} /\ pc' \notin {"retry", "repair"}) =>
              (pc' = "firstChunk") =
                 (/\ locateResponse'.head.status \in {200, 206}
                  /\ locateResponse'.totalChunks > 0
                  /\ locateResponse'.dataPoints = <<>>)
        /\ pc' = "firstChunk" => pc \in {"locate", "retry", "repair"}
        /\ pc = "firstChunk" =>
              /\ getLog' = Append(getLog, [path |-> currentPath, start |-> 0, end |-> 0])
              /\ pc' \in {"done", "dps"}
              /\ getFailed' =>
                    /\ locateResponse' = locateResponse
                    /\ pc' = "done"
              /\ pc' = "done" =>
                    /\ result'.response = locateResponse'
                    /\ ~result'.hasContent
              /\ pc' = "dps" => dataPoints' = locateResponse'.dataPoints
        /\ pc \in {"dps", "read", "done", "thrown"} => getLog' = getLog
      ]_vars

\* the first-chunk locate answered 404 with no chunk after a 200 location:
\* the result carries the 404
C32_Witness ==
    /\ pc = "done"
    /\ Len(getLog) >= 2
    /\ getLog[Len(getLog)] = [path |-> currentPath, start |-> 0, end |-> 0]
    /\ getLog[Len(getLog) - 1].end # 0
    /\ ~getFailed
    /\ head.status = 200
    /\ result.response.head.status = 404
    /\ result.response = locateResponse

\* the HEAD calls of the redirect loop so far
LoopHeads == (maxRedirects - redirectsLeft) + 1

\* the chunk reads so far are reads of the first chunk identifiers handed to
\* the content load, one each and in order
ReadsEachOnce ==
    /\ Len(reads) <= Len(dataPoints)
    /\ reads = SubSeq(dataPoints, 1, Len(reads))

\* C33: every request ends (returns or throws); once the redirect loop is
\* left at most 4 further HEADs (the index probes) are made; at most 4
\* locates are made; at most one chunk read is made per chunk identifier of
\* the location whose content is loaded.
C33_RequestTerminates ==
    /\ <>(pc \in {"done", "thrown"})
    /\ [](/\ Len(getLog) <= 4
          /\ pc = "loop" => Len(headLog) < LoopHeads
          /\ (~headRequest /\ pc # "loop") => Len(headLog) <= LoopHeads + 4
          /\ ReadsEachOnce)

\* 404, three index documents skipped and the fourth adopted; the locate
\* failed, the retry needed the repair and the first-chunk locate, and the
\* content was loaded
C33_Witness ==
    /\ pc = "done"
    /\ candidate = 4
    /\ Len(headLog) = LoopHeads + 4
    /\ Len(getLog) = 4
    /\ result.hasContent
    /\ reads = dataPoints

\* C34: an entry of the name cache, once inserted, is never replaced by a
\* different identifier, however the resolve calls interleave.
C34_EntriesNeverOverwritten ==
    [][\A n \in NormalizedDomains :
          ensResolutionCache[n] # "" => ensResolutionCache'[n] = ensResolutionCache[n]
      ]_vars

\* C35: a resolve with useCache off starts by asking the provider (it does
\* not answer from the cache, even when the name has an entry), returns only
\* what the backend queries gave, and none of its steps changes the cache.
C35_NoCacheWithoutUseCache ==
    [][\A s \in Slots :
          (/\ calls'[s] # calls[s]
           /\ calls'[s].op = "resolve"
           /\ ~calls'[s].useCache) =>
             /\ ensResolutionCache' = ensResolutionCache
             /\ calls[s].pc = "idle" =>
                   \/ calls'[s].pc = "getNetwork" /\ Len(calls'[s].queryLog) = 1
                   \/ calls'[s].pc = "thrown" /\ calls'[s].thrown = "DomainNotString"
             /\ calls'[s].pc = "returned" =>
                   /\ calls[s].pc = "addr"
                   /\ calls'[s].queryLog # <<>>
      ]_vars

\* a.eth is cached as 0xS; a resolve of a.eth with useCache off has asked
\* mainnet and returned 0xM; the entry is still 0xS
C35_Witness ==
    \E s \in Slots :
        /\ calls[s].op = "resolve"
        /\ ~calls[s].useCache
        /\ calls[s].pc = "returned"
        /\ calls[s].name = <<"a", ".", "e", "t", "h">>
        /\ calls[s].value = "0xM"
        /\ ensResolutionCache[<<"a", ".", "e", "t", "h">>] = "0xS"

\* the identifiers the naming backends bind to the name n
BoundTo(n) ==
    {naming[c][n] : c \in ENS_CONFIGS} \cap Addresses

\* C36: every entry of the name cache has a lowercase, trimmed name as its
\* key and a non-zero identifier that a naming backend binds to exactly that
\* name as its value; every resolve that returned, returned such an
\* identifier for its name; a name that has no resolver or the zero
\* identifier on every chain has no entry and is never returned.
C36_CacheHoldsBackendBindings ==
    /\ \A n \in DOMAIN ensResolutionCache :
          /\ toLowerCase(n) = n
          /\ trim(n) = n
          /\ ensResolutionCache[n] # "" => ensResolutionCache[n] \in BoundTo(n)
          /\ BoundTo(n) = {} => ensResolutionCache[n] = ""
    /\ \A s \in Slots :
          (calls[s].op = "resolve" /\ calls[s].pc = "returned") =>
              calls[s].value \in BoundTo(calls[s].name)

\* a.eth has no resolver on Sepolia: the mainnet fallback gave 0xM, which is
\* cached, and b.eth is cached with its Sepolia binding
C36_Witness ==
    /\ naming[Sepolia][AEth] = "NoResolver"
    /\ ensResolutionCache[AEth] = "0xM"
    /\ ensResolutionCache[BEth] = "0xB"

\* walking the segments of p from the root, some ".." is met at the root
\* itself: the path points above the root
PointsAboveRoot(p) ==
    LET segs == Split(p, "/")
        depth[i \in 0..Len(segs)] ==
            IF i = 0 THEN 0
            ELSE IF segs[i] \in {<<>>, <<".">>} THEN depth[i - 1]
            ELSE IF segs[i] = <<".", ".">> THEN depth[i - 1] - 1
            ELSE depth[i - 1] + 1
    IN  \E i \in 1..Len(segs) : depth[i] < 0

\* C37: normalizePath gives "/" for the empty path, an absolute path as it
\* is, "/" and the rest for a path that starts with "./" or "../", and "/"
\* and the path for any other; the result starts with "/", and for a path
\* that starts with "../" it does not point above the root.
C37_NormalizePathCases ==
    pc = "normalized" =>
        /\ inputPath = <<>> => currentPath = <<"/">>
        /\ StartsWith(inputPath, <<"/">>) => currentPath = inputPath
        /\ StartsWith(inputPath, <<".", "/">>) =>
              currentPath = <<"/">> \o SubSeq(inputPath, 3, Len(inputPath))
        /\ StartsWith(inputPath, <<".", ".", "/">>) =>
              currentPath = <<"/">> \o SubSeq(inputPath, 4, Len(inputPath))
        /\ (/\ inputPath # <<>>
            /\ ~StartsWith(inputPath, <<"/">>)
            /\ ~StartsWith(inputPath, <<".", "/">>)
            /\ ~StartsWith(inputPath, <<".", ".", "/">>)) =>
              currentPath = <<"/">> \o inputPath
        /\ StartsWith(currentPath, <<"/">>)
        /\ StartsWith(inputPath, <<".", ".", "/">>) => ~PointsAboveRoot(currentPath)

\* "../../a" was normalized to "/../a"
C37_StillClimbs ==
    /\ pc = "normalized"
    /\ inputPath = <<".", ".", "/", ".", ".", "/", "a">>
    /\ currentPath = <<"/", ".", ".", "/", "a">>

\* C37 without its last clause: the five cases and the leading "/"
C37_CasesOnly ==
    pc = "normalized" =>
        /\ inputPath = <<>> => currentPath = <<"/">>
        /\ StartsWith(inputPath, <<"/">>) => currentPath = inputPath
        /\ StartsWith(inputPath, <<".", "/">>) =>
              currentPath = <<"/">> \o SubSeq(inputPath, 3, Len(inputPath))
        /\ StartsWith(inputPath, <<".", ".", "/">>) =>
              currentPath = <<"/">> \o SubSeq(inputPath, 4, Len(inputPath))
        /\ (/\ inputPath # <<>>
            /\ ~StartsWith(inputPath, <<"/">>)
            /\ ~StartsWith(inputPath, <<".", "/">>)
            /\ ~StartsWith(inputPath, <<".", ".", "/">>)) =>
              currentPath = <<"/">> \o inputPath
        /\ StartsWith(currentPath, <<"/">>)

\* the path a request asks for, normalized
RequestedPath == normalizePath(IF inputPath = <<>> THEN <<"/">> ELSE inputPath)

\* C38: a HEAD request for a site makes one HEAD call, at the normalized
\* requested path, and returns with the head of the reply, whatever its
\* status (the default head when the call failed); it stays at that path,
\* spends no redirect and probes no index document.
C38_HeadRequestIsOneHead ==
    [][ headRequest =>
          /\ pc' \in {"start", "head", "done", "thrown"}
          /\ pc' = "thrown" => siteAddress = ""
          /\ pc = "head" =>
                /\ headLog = <<>>
                /\ headLog' = <<RequestedPath>>
                /\ pc' = "done"
                /\ result'.response.head \in
                      {HeadOf(r) : r \in HeadReplies(RequestedPath)}
                /\ headFailed' => result' = HeadOnlyResult(defaultHead)
          /\ pc = "done" => headLog' = headLog
          /\ currentPath' \in {currentPath, RequestedPath}
          /\ redirectsLeft' \in {redirectsLeft, maxRedirects}
          /\ candidate' = 1
      ]_vars

\* the HEAD of a.txt answered 301 with a location; the request returned
\* that head after this one call
C38_Witness ==
    /\ headRequest
    /\ pc = "done"
    /\ headLog = <<ATxt>>
    /\ currentPath = ATxt
    /\ result.response.head = [status |-> 301, location |-> <<"b">>]

\* a HEAD request got 404 at /docs/ and returned it, no index document asked
C38_NotFoundWitness ==
    /\ headRequest
    /\ pc = "done"
    /\ headLog = <<Docs>>
    /\ ~headFailed
    /\ result.response.head.status = 404

\* the argument is a string whose lowercase form ends with ".eth"
IsEthName(address) ==
    /\ address.isString
    /\ Len(address.chars) >= 4
    /\ toLowerCase(SubSeq(address.chars, Len(address.chars) - 3, Len(address.chars)))
          = <<".", "e", "t", "h">>

\* C39: getContractAddress returns its argument when that is no .eth name;
\* for a .eth name with a cache entry it returns the entry; for a .eth name
\* without an entry and with no provider it rejects; in these three cases
\* it makes no backend call and changes no cache.
C39_ContractAddressFromCache ==
    [][\A s \in Slots :
          (calls[s].pc = "idle" /\ calls'[s].argument # NotAString) =>
             LET c == calls'[s]
                 entry == ensResolutionCache[trim(toLowerCase(c.argument.chars))]
             IN  /\ ~IsEthName(c.argument) =>
                       /\ c.pc = "returned"
                       /\ c.returnedArgument
                 /\ (IsEthName(c.argument) /\ entry # "") =>
                       /\ c.pc = "returned"
                       /\ ~c.returnedArgument
                       /\ c.value = entry
                 /\ (IsEthName(c.argument) /\ entry = "" /\ c.chain = NoProviderGiven) =>
                       /\ c.pc = "thrown"
                       /\ c.thrown = "NoProvider"
                 /\ c.pc \in {"returned", "thrown"} =>
                       /\ c.queryLog = <<>>
                       /\ ensResolutionCache' = ensResolutionCache
                       /\ providerCache' = providerCache
                       /\ networkInfoCache' = networkInfoCache
      ]_vars

\* a.eth was resolved and cached as 0xS; getContractAddress("a.eth") with
\* no provider returned 0xS
C39_Witness ==
    \E s \in Slots :
        /\ calls[s].op = "contract"
        /\ calls[s].argument = Str(AEth)
        /\ calls[s].chain = NoProviderGiven
        /\ calls[s].pc = "returned"
        /\ calls[s].value = "0xS"
        /\ calls[s].queryLog = <<>>

\* getContractAddress("b.eth") with no cache entry and no provider rejected
C39_RejectedWitness ==
    \E s \in Slots :
        /\ calls[s].op = "contract"
        /\ calls[s].argument = Str(BEth)
        /\ calls[s].pc = "thrown"
        /\ calls[s].thrown = "NoProvider"
        /\ ensResolutionCache[AEth] # ""

\* getContractAddress("0xS") returned its argument
C39_AddressWitness ==
    \E s \in Slots :
        /\ calls[s].op = "contract"
        /\ calls[s].argument = Str(<<"0", "x", "S">>)
        /\ calls[s].pc = "returned"
        /\ calls[s].returnedArgument

====
